---- MODULE Spec2Model ----
(***************************************************************************)
(* PlayLister: the recommender (score_song, generate_recommendations,      *)
(* generate_cold_start_playlist), the feedback upsert (save_feedback) and  *)
(* the quiz sampling (get_quiz_songs, the /quiz/start route).              *)
(*                                                                         *)
(* Scores are real numbers in the program.  Every weight of app/config.py  *)
(* is a multiple of 0.1 and the jitter lies in [0, 0.1), so the model      *)
(* counts scores in hundredths: 2.0 is 200, 0.1 is 10.                     *)
(***************************************************************************)
EXTENDS Integers, Sequences, FiniteSets, TLC

VARIABLES
    \* ---- one call of the recommender (its arguments and what it returns)
    all_songs,        \* list of song dicts
    liked_songs,      \* list of song dicts
    disliked_songs,   \* list of song dicts
    count,            \* requested length
    preferred_genre,  \* <<>> for None, else <<genre string>>
    seed_song,        \* <<>> for None, else <<song dict>>
    scored_songs,     \* the (song, score) list after the sort
    result,           \* the returned list of song dicts
    rec_op,           \* "none", "warm" or "cold": the function that returned
    \* ---- the store
    songs,            \* songs table, rows in rowid order (written by seeding only)
    users,            \* users table, rows in rowid order
    feedback,         \* user_song_feedback table, rows in rowid order
    \* ---- save_feedback calls
    fb_call,          \* arguments of the most recent save_feedback call
    fb_calls,         \* number of save_feedback calls made
    fb_last,          \* (user, song) -> <<value of the most recent call>>, or <<>>
    fb_repeat,        \* the most recent call had the arguments of the one before
    \* ---- concurrent save_feedback (one connection per request)
    pc,               \* per request: "idle", "selected" or "written"
    req,              \* per request: its (user_id, song_id, liked)
    existing,         \* per request: id of the row its SELECT fetched, 0 for None
    \* ---- one call of score_song
    candidate,        \* the song dict that is scored
    cand_jitter,      \* the value random.uniform(0, 0.1) returned
    cand_score,       \* the returned score
    score_op,         \* "none", "returned" or "raised"
    \* ---- playlists
    playlists,        \* playlists table, rows in rowid order
    playlist_songs,   \* playlist_songs table, rows in rowid order
    pl_input,         \* playlist id -> <<song_ids given to create_playlist>>, or <<>>
    pl_count,         \* number of create_playlist calls made
    \* ---- the HTTP response being returned, NoResp between requests
    resp

vars == <<all_songs, liked_songs, disliked_songs, count, preferred_genre,
          seed_song, scored_songs, result, rec_op,
          songs, users, feedback, fb_call, fb_calls, fb_last, fb_repeat,
          pc, req, existing, candidate, cand_jitter, cand_score, score_op,
          playlists, playlist_songs, pl_input, pl_count, resp>>

rec_vars  == <<all_songs, liked_songs, disliked_songs, count, preferred_genre,
               seed_song, scored_songs, result, rec_op>>
store_vars == <<songs, users, feedback>>
fb_vars   == <<fb_call, fb_calls, fb_last, fb_repeat>>
conc_vars == <<pc, req, existing>>
score_vars == <<candidate, cand_jitter, cand_score, score_op>>
pl_vars   == <<playlists, playlist_songs, pl_input, pl_count>>

----------------------------------------------------------------------------
(* Bounds of the model *)

NumSongs == 3      \* rows of the songs table (ids 1..NumSongs)
MaxCount == 3      \* largest requested playlist length
MaxCalls == 2      \* save_feedback calls in one behaviour
MaxLiked == 2      \* longest liked_songs list given to score_song on its own
MaxPlaylists == 2  \* create_playlist calls in one behaviour

----------------------------------------------------------------------------
(* app/config.py, in hundredths *)

ARTIST_WEIGHT        == 200
SUBGENRE_WEIGHT      == 100
TAG_WEIGHT           == 50
BPM_WEIGHT           == 30
ERA_WEIGHT           == 20
SEED_ARTIST_WEIGHT   == 100
SEED_SUBGENRE_WEIGHT == 100
SEED_TAG_WEIGHT      == 100
SEED_BPM_WEIGHT      == 30
GENRE_BONUS          == 500
BPM_TOLERANCE        == 8
YEAR_TOLERANCE       == 5
\* random.uniform(0, 0.1): the jitter is in [0, JITTER_MAX)
JITTER_MAX           == 10
JitterValues         == {0, JITTER_MAX - 1}

----------------------------------------------------------------------------
(* Helpers *)

Min(a, b) == IF a < b THEN a ELSE b
Abs(x)    == IF x < 0 THEN -x ELSE x

RECURSIVE SumSeq(_)
SumSeq(s) == IF s = <<>> THEN 0 ELSE Head(s) + SumSeq(Tail(s))

Range(s) == { s[i] : i \in DOMAIN s }

\* Python truthiness of an optional integer column: None and 0 are falsy.
Truthy(opt) == opt # <<>> /\ opt[1] # 0

\* A TEXT column holding s1;s2;...;sk is the sequence of its k >= 1 pieces, so the
\* empty string is <<"">>.  set(tags.split(';')) if tags else set()
\* a split that forgets the test of the empty string: "".split(';') is [""]
TagSet_split(tags) == Range(tags)

TagSet(tags) == IF tags = <<"">> THEN {} ELSE Range(tags)

----------------------------------------------------------------------------
(* The songs table: rows as dict_factory returns them. An INTEGER column is   *)
(* <<n>>, or <<>> when it is NULL.  A title is the sequence of its characters.*)

SongRow(i) ==
    CASE i = 1 -> [id |-> 1, title |-> <<"D", "a", "w", "n">>,
                   artist |-> "A", subgenre |-> "deep-house",
                   year |-> <<2019>>, tags |-> <<"melodic", "chill">>, bpm |-> <<118>>]
      [] i = 2 -> [id |-> 2, title |-> <<"S", "u", "n">>,
                   artist |-> "A", subgenre |-> "tech-house",
                   year |-> <<2021>>, tags |-> <<"melodic">>, bpm |-> <<125>>]
      [] i = 3 -> [id |-> 3, title |-> <<"D", "u", "s", "k">>,
                   artist |-> "B", subgenre |-> "deep-house",
                   year |-> <<2010>>, tags |-> <<"">>, bpm |-> <<>>]
      [] i = 4 -> [id |-> 4, title |-> <<"S", "k", "y">>,
                   artist |-> "C", subgenre |-> "tech-house",
                   year |-> <<2012>>, tags |-> <<"chill", "">>, bpm |-> <<0>>]
      [] OTHER -> [id |-> i, title |-> <<"N", "o", "w">>, artist |-> "D",
                   subgenre |-> IF i % 2 = 1 THEN "deep-house" ELSE "tech-house",
                   year |-> <<2000 + i>>, tags |-> <<"">>, bpm |-> <<>>]

SongIds == 1..NumSongs

\* SELECT * FROM songs: the first k rows in rowid order
SongTable(k) == [i \in 1..k |-> SongRow(i)]

\* no genre, the empty string, a genre of the table, a genre of no song
Genres == {<<>>, <<"">>, <<"deep-house">>, <<"acid">>}
Counts == 0..MaxCount

----------------------------------------------------------------------------
(* RecommenderService.score_song *)

CountMatches(pool, Test(_)) == Len(SelectSeq(pool, Test))

\* sum(...) and the subtraction fail with TypeError on a None year
ScoreRaises(song, liked) ==
    /\ liked # <<>>
    /\ \/ song.year = <<>>
       \/ \E i \in DOMAIN liked : liked[i].year = <<>>

\* an artist term that counts a matching artist once however many songs match
ArtistTerm_capped(song, liked, disliked) ==
    ARTIST_WEIGHT * Min(1, CountMatches(liked, LAMBDA l : song.artist = l.artist))
    - ARTIST_WEIGHT
        * Min(1, CountMatches(disliked, LAMBDA d : song.artist = d.artist))

ArtistTerm(song, liked, disliked) ==
    ARTIST_WEIGHT * CountMatches(liked, LAMBDA l : song.artist = l.artist)
    - ARTIST_WEIGHT * CountMatches(disliked, LAMBDA d : song.artist = d.artist)

SubgenreTerm(song, liked, disliked) ==
    SUBGENRE_WEIGHT * CountMatches(liked, LAMBDA l : song.subgenre = l.subgenre)
    - SUBGENRE_WEIGHT * CountMatches(disliked, LAMBDA d : song.subgenre = d.subgenre)

TagTerm(song, liked) ==
    SumSeq([i \in DOMAIN liked |->
              Cardinality(TagSet(song.tags) \cap TagSet(liked[i].tags)) * TAG_WEIGHT])

\* |bpm - sum/len| <= tol, the division done exactly: |bpm*len - sum| <= tol*len
BpmTerm(song, liked) ==
    IF Truthy(song.bpm) /\ liked # <<>>
    THEN LET liked_bpms == SelectSeq(liked, LAMBDA s : Truthy(s.bpm))
             n          == Len(liked_bpms)
             total      == SumSeq([i \in 1..n |-> liked_bpms[i].bpm[1]])
         IN  IF n > 0 /\ Abs(song.bpm[1] * n - total) <= BPM_TOLERANCE * n
             THEN BPM_WEIGHT ELSE 0
    ELSE 0

\* an era term that forgets the tolerance test
EraTerm_no_tolerance(song, liked) ==
    IF liked # <<>> /\ ~ScoreRaises(song, liked) THEN ERA_WEIGHT ELSE 0

EraTerm(song, liked) ==
    IF liked # <<>> /\ ~ScoreRaises(song, liked)
    THEN LET n     == Len(liked)
             total == SumSeq([i \in 1..n |-> liked[i].year[1]])
         IN  IF Abs(song.year[1] * n - total) <= YEAR_TOLERANCE * n
             THEN ERA_WEIGHT ELSE 0
    ELSE 0

\* a seed term that takes SEED_BPM_WEIGHT off when the two BPMs are apart
SeedTerm_bpm_penalty(song, seed) ==
    IF seed # <<>>
    THEN LET s == seed[1] IN
           (IF song.artist = s.artist THEN SEED_ARTIST_WEIGHT ELSE 0)
         + (IF song.subgenre = s.subgenre THEN SEED_SUBGENRE_WEIGHT ELSE 0)
         + Cardinality(TagSet(song.tags) \cap TagSet(s.tags)) * SEED_TAG_WEIGHT
         + (IF Truthy(song.bpm) /\ Truthy(s.bpm)
            THEN IF Abs(song.bpm[1] - s.bpm[1]) <= BPM_TOLERANCE
                 THEN SEED_BPM_WEIGHT ELSE 0 - SEED_BPM_WEIGHT
            ELSE 0)
    ELSE 0

SeedTerm(song, seed) ==
    IF seed # <<>>
    THEN LET s == seed[1] IN
           (IF song.artist = s.artist THEN SEED_ARTIST_WEIGHT ELSE 0)
         + (IF song.subgenre = s.subgenre THEN SEED_SUBGENRE_WEIGHT ELSE 0)
         + Cardinality(TagSet(song.tags) \cap TagSet(s.tags)) * SEED_TAG_WEIGHT
         + (IF Truthy(song.bpm) /\ Truthy(s.bpm)
               /\ Abs(song.bpm[1] - s.bpm[1]) <= BPM_TOLERANCE
            THEN SEED_BPM_WEIGHT ELSE 0)
    ELSE 0

\* the score before the jitter is added
ScoreBase(song, liked, disliked, seed) ==
    ArtistTerm(song, liked, disliked) + SubgenreTerm(song, liked, disliked)
    + TagTerm(song, liked) + BpmTerm(song, liked) + EraTerm(song, liked)
    + SeedTerm(song, seed)

\* score_song with the value jitter drawn by random.uniform(0, 0.1)
score_song(song, liked, disliked, seed, jitter) ==
    ScoreBase(song, liked, disliked, seed) + jitter

----------------------------------------------------------------------------
(* RecommenderService.generate_recommendations *)

DislikedSongIds(disliked) == { disliked[i].id : i \in DOMAIN disliked }

\* [s for s in all_songs if s["subgenre"] == preferred_genre], [] without a genre
GenreSongs(pool, genre) ==
    IF genre # <<>> /\ genre[1] # ""
    THEN SelectSeq(pool, LAMBDA s : s.subgenre = genre[1])
    ELSE <<>>

\* a first loop that forgets the disliked check
SkipGenreSong_never(song, disliked) == FALSE

\* first loop: if song["id"] in disliked_song_ids: continue
SkipGenreSong(song, disliked) == song.id \in DislikedSongIds(disliked)

\* a second loop that forgets the already-scored check
SkipFillSong_rescore(song, disliked, scored) ==
    song.id \in DislikedSongIds(disliked)

\* second loop: skip songs that are already scored or disliked
SkipFillSong(song, disliked, scored) ==
    \/ song.id \in DislikedSongIds(disliked)
    \/ \E i \in DOMAIN scored : scored[i].song.id = song.id

\* a first loop that forgets the bonus
WithGenreBonus_none(score) == score

\* a first loop that adds the bonus twice
WithGenreBonus_twice(score) == score + GENRE_BONUS + GENRE_BONUS

\* score += self.config.GENRE_BONUS
WithGenreBonus(score) == score + GENRE_BONUS

\* jit[id] is the jitter drawn by the call of score_song on the song with that id
\* (the ids of the pool are unique, so a song is scored at most once).
RECURSIVE GenrePass(_, _, _, _, _, _)
GenrePass(pool, scored, liked, disliked, seed, jit) ==
    IF pool = <<>> THEN scored
    ELSE LET song == Head(pool) IN
         IF SkipGenreSong(song, disliked)
         THEN GenrePass(Tail(pool), scored, liked, disliked, seed, jit)
         ELSE GenrePass(Tail(pool),
                        Append(scored,
                               [song  |-> song,
                                score |-> WithGenreBonus(
                                    score_song(song, liked, disliked, seed,
                                               jit[song.id]))]),
                        liked, disliked, seed, jit)

RECURSIVE FillPass(_, _, _, _, _, _)
FillPass(pool, scored, liked, disliked, seed, jit) ==
    IF pool = <<>> THEN scored
    ELSE LET song == Head(pool) IN
         IF SkipFillSong(song, disliked, scored)
         THEN FillPass(Tail(pool), scored, liked, disliked, seed, jit)
         ELSE FillPass(Tail(pool),
                       Append(scored,
                              [song  |-> song,
                               score |-> score_song(song, liked, disliked, seed,
                                                    jit[song.id])]),
                       liked, disliked, seed, jit)

\* a sort without reverse=True
RECURSIVE InsertDesc_ascending(_, _)
InsertDesc_ascending(sorted, x) ==
    IF sorted = <<>> THEN <<x>>
    ELSE IF Head(sorted).score <= x.score
         THEN <<Head(sorted)>> \o InsertDesc_ascending(Tail(sorted), x)
         ELSE <<x>> \o sorted

\* list.sort(key=score, reverse=True): stable, equal scores keep their order
RECURSIVE InsertDesc(_, _)
InsertDesc(sorted, x) ==
    IF sorted = <<>> THEN <<x>>
    ELSE IF Head(sorted).score >= x.score
         THEN <<Head(sorted)>> \o InsertDesc(Tail(sorted), x)
         ELSE <<x>> \o sorted

RECURSIVE SortDesc(_, _)
SortDesc(todo, sorted) ==
    IF todo = <<>> THEN sorted
    ELSE SortDesc(Tail(todo), InsertDesc(sorted, Head(todo)))

\* a slice that is one too long
TopN_one_more(scored, n) == SubSeq(scored, 1, Min(n + 1, Len(scored)))

\* scored_songs[:count]
TopN(scored, n) ==
    IF n >= 0 THEN SubSeq(scored, 1, Min(n, Len(scored)))
    ELSE SubSeq(scored, 1, Len(scored) + n)

\* a ranking that leaves the songs the user liked out of the second loop
ScoredSongs_unrated(pool, liked, disliked, genre, seed, jit) ==
    LET genre_songs == GenreSongs(pool, genre)
        first == IF genre_songs # <<>>
                 THEN GenrePass(genre_songs, <<>>, liked, disliked, seed, jit)
                 ELSE <<>>
        unrated == SelectSeq(pool, LAMBDA s :
                       \A i \in DOMAIN liked : liked[i].id # s.id)
    IN  SortDesc(FillPass(unrated, first, liked, disliked, seed, jit), <<>>)

ScoredSongs(pool, liked, disliked, genre, seed, jit) ==
    LET genre_songs == GenreSongs(pool, genre)
        first == IF genre_songs # <<>>
                 THEN GenrePass(genre_songs, <<>>, liked, disliked, seed, jit)
                 ELSE <<>>
    IN  SortDesc(FillPass(pool, first, liked, disliked, seed, jit), <<>>)

SongsOf(scored) == [i \in DOMAIN scored |-> scored[i].song]

\* some call of score_song raises (no song of the seeded table has a NULL year)
GenerateRaises(pool, liked, disliked) ==
    \E i \in DOMAIN pool :
        /\ pool[i].id \notin DislikedSongIds(disliked)
        /\ ScoreRaises(pool[i], liked)

GenerateRecommendations ==
    /\ rec_op = "none"
    /\ \E jit \in [{ all_songs[i].id : i \in DOMAIN all_songs } -> JitterValues] :
         IF GenerateRaises(all_songs, liked_songs, disliked_songs)
         THEN /\ rec_op' = "warm_raised"
              /\ UNCHANGED <<scored_songs, result>>
         ELSE LET scored == ScoredSongs(all_songs, liked_songs, disliked_songs,
                                        preferred_genre, seed_song, jit)
              IN  /\ scored_songs' = scored
                  /\ result' = SongsOf(TopN(scored, count))
                  /\ rec_op' = "warm"
    /\ UNCHANGED <<all_songs, liked_songs, disliked_songs, count,
                   preferred_genre, seed_song>>
    /\ UNCHANGED <<store_vars, fb_vars, conc_vars, score_vars, pl_vars, resp>>

----------------------------------------------------------------------------
(* RecommenderService.generate_cold_start_playlist *)

\* random.sample(population, k): k distinct positions, in any order
Samples(population, k) ==
    { [i \in 1..k |-> population[p[i]]] :
        p \in { q \in [1..k -> DOMAIN population] :
                  \A i, j \in 1..k : i # j => q[i] # q[j] } }

\* a filler pool that still holds the genre songs
RemainingSongs_all(pool, taken) == pool

\* [song for song in all_songs if song not in result]: dict equality
RemainingSongs(pool, taken) ==
    SelectSeq(pool, LAMBDA s : s \notin Range(taken))

\* enough songs in the preferred genre
EnoughGenreSongs(genre_songs, n) == Len(genre_songs) >= n

ColdStartResults(pool, n, genre) ==
    IF genre # <<>> /\ genre[1] # ""
    THEN LET genre_songs == SelectSeq(pool, LAMBDA s : s.subgenre = genre[1])
         IN  IF EnoughGenreSongs(genre_songs, n)
             THEN Samples(genre_songs, n)
             ELSE LET remaining == RemainingSongs(pool, genre_songs)
                      needed    == n - Len(genre_songs)
                  IN  IF needed > 0 /\ remaining # <<>>
                      THEN { genre_songs \o extra :
                               extra \in Samples(remaining,
                                                 Min(needed, Len(remaining))) }
                      ELSE { genre_songs }
    ELSE Samples(pool, Min(n, Len(pool)))

GenerateColdStart ==
    /\ rec_op = "none"
    /\ \E r \in ColdStartResults(all_songs, count, preferred_genre) :
         result' = r
    /\ rec_op' = "cold"
    /\ UNCHANGED <<all_songs, liked_songs, disliked_songs, count,
                   preferred_genre, seed_song, scored_songs>>
    /\ UNCHANGED <<store_vars, fb_vars, conc_vars, score_vars, pl_vars, resp>>

----------------------------------------------------------------------------
(* The recommender called on arguments drawn from the store's rows *)

Ratings == {"none", "liked", "disliked", "both"}

Users == {1, 2}
Procs == {1, 2}
NoResp == [route |-> "none", user_id |-> 0, n |-> 0, status |-> 0,
           body |-> <<>>, error |-> ""]

\* the users table after the users of Users were created
UserRows == <<[id |-> 1, name |-> "ann"], [id |-> 2, name |-> "bob"]>>

\* UserService.get_user_by_id: <<row>>, or <<>> for None
get_user_by_id(table, user_id) ==
    LET found == SelectSeq(table, LAMBDA u : u.id = user_id)
    IN  IF found = <<>> THEN <<>> ELSE <<found[1]>>

\* no score_song call was made
ScoreIdle ==
    /\ candidate = <<>>
    /\ cand_jitter = 0
    /\ cand_score = 0
    /\ score_op = "none"

\* init_db: CREATE TABLE IF NOT EXISTS playlists, playlist_songs
PlaylistsIdle ==
    /\ playlists = <<>>
    /\ playlist_songs = <<>>
    /\ pl_input = <<>>
    /\ pl_count = 0

\* no feedback row, no request under way
RequestsIdle ==
    /\ feedback = <<>>
    /\ fb_call = <<>>
    /\ fb_calls = 0
    /\ fb_last = [p \in Users \X SongIds |-> <<>>]
    /\ fb_repeat = FALSE
    /\ pc = [p \in Procs |-> "idle"]
    /\ req = [p \in Procs |-> <<>>]
    /\ existing = [p \in Procs |-> 0]
    /\ resp = NoResp

StoreIdle ==
    /\ users = UserRows
    /\ RequestsIdle

InitRec ==
    /\ \E k \in 0..NumSongs : all_songs = SongTable(k)
    /\ \E f \in [SongIds -> Ratings] :
         /\ liked_songs = SelectSeq(SongTable(NumSongs),
                                    LAMBDA s : f[s.id] \in {"liked", "both"})
         /\ disliked_songs = SelectSeq(SongTable(NumSongs),
                                       LAMBDA s : f[s.id] \in {"disliked", "both"})
    /\ count \in Counts
    /\ preferred_genre \in Genres
    /\ seed_song \in {<<>>, <<SongRow(2)>>}
    /\ scored_songs = <<>>
    /\ result = <<>>
    /\ rec_op = "none"
    /\ songs = SongTable(NumSongs)
    /\ StoreIdle
    /\ ScoreIdle
    /\ PlaylistsIdle

NextRec == GenerateRecommendations \/ GenerateColdStart

SpecRec == InitRec /\ [][NextRec]_vars

----------------------------------------------------------------------------
(* score_song called on its own, on song dicts drawn from a pool *)

\* song dicts that share no artist, subgenre or tag with the rows of SongRow;
\* row 14 has NULL in its year and bpm columns
FarRow(i) ==
    CASE i = 11 -> [id |-> 11, title |-> <<"O", "l", "d">>,
                    artist |-> "X", subgenre |-> "acid",
                    year |-> <<2000>>, tags |-> <<"dark">>, bpm |-> <<100>>]
      [] i = 12 -> [id |-> 12, title |-> <<"N", "e", "w">>,
                    artist |-> "Y", subgenre |-> "trance",
                    year |-> <<2020>>, tags |-> <<"fast">>, bpm |-> <<140>>]
      [] i = 13 -> [id |-> 13, title |-> <<"M", "i", "d">>,
                    artist |-> "N", subgenre |-> "garage",
                    year |-> <<2010>>, tags |-> <<"raw">>, bpm |-> <<120>>]
      [] OTHER  -> [id |-> i, title |-> <<"N", "i", "l">>,
                    artist |-> "Q", subgenre |-> "dub",
                    year |-> <<>>, tags |-> <<"">>, bpm |-> <<>>]

ScorePool == { SongRow(i) : i \in 1..4 } \cup { FarRow(i) : i \in 11..14 }

\* the lists of at most n elements of S
Lists(S, n) == UNION { [1..k -> S] : k \in 0..n }

\* the disliked lists of the calls: none, one song, two songs of one artist, two
\* of one subgenre
DislikedLists ==
    Lists(ScorePool, 1)
    \cup {<<SongRow(1), SongRow(2)>>, <<SongRow(3), SongRow(1)>>}

InitScore ==
    /\ candidate \in { <<s>> : s \in ScorePool }
    /\ liked_songs \in Lists(ScorePool, MaxLiked)
    /\ disliked_songs \in DislikedLists
    /\ seed_song \in {<<>>, <<SongRow(2)>>, <<SongRow(3)>>}
    /\ cand_jitter = 0
    /\ cand_score = 0
    /\ score_op = "none"
    /\ all_songs = <<>>
    /\ count = 0
    /\ preferred_genre = <<>>
    /\ scored_songs = <<>>
    /\ result = <<>>
    /\ rec_op = "none"
    /\ songs = SongTable(NumSongs)
    /\ StoreIdle
    /\ PlaylistsIdle

\* one call score_song(song, liked_songs, disliked_songs, seed_song): it returns
\* the score, or the TypeError of the era term leaves it
ScoreSong ==
    /\ score_op = "none"
    /\ IF ScoreRaises(candidate[1], liked_songs)
       THEN /\ score_op' = "raised"
            /\ UNCHANGED <<cand_jitter, cand_score>>
       ELSE /\ score_op' = "returned"
            /\ \E jitter \in JitterValues :
                 /\ cand_jitter' = jitter
                 /\ cand_score' = score_song(candidate[1], liked_songs,
                                             disliked_songs, seed_song, jitter)
    /\ UNCHANGED <<all_songs, liked_songs, disliked_songs, count,
                   preferred_genre, seed_song, scored_songs, result, rec_op>>
    /\ UNCHANGED <<candidate, store_vars, fb_vars, conc_vars, pl_vars, resp>>

NextScore == ScoreSong

SpecScore == InitScore /\ [][NextScore]_vars

----------------------------------------------------------------------------
(* QuizService.save_feedback on the user_song_feedback table.  The table has *)
(* no UNIQUE constraint on (user_id, song_id): database.py:91-101.          *)

MatchingRows(fb, u, s) ==
    SelectSeq(fb, LAMBDA r : r.user_id = u /\ r.song_id = s)

\* a SELECT that never finds the row
SelectExisting_none(fb, u, s) == 0

\* SELECT ... WHERE user_id = ? AND song_id = ?; fetchone(): id of the first row
SelectExisting(fb, u, s) ==
    IF MatchingRows(fb, u, s) = <<>> THEN 0 ELSE Head(MatchingRows(fb, u, s)).id

\* an UPDATE that leaves the old value
UpdateLiked_stale(fb, id, v) == fb

\* UPDATE user_song_feedback SET liked = ? WHERE id = ?
UpdateLiked(fb, id, v) ==
    [i \in DOMAIN fb |-> IF fb[i].id = id THEN [fb[i] EXCEPT !.liked = v] ELSE fb[i]]

\* INSERT: the INTEGER PRIMARY KEY is the largest rowid plus one (no row of the
\* table is ever deleted)
InsertFeedback(fb, u, s, v) ==
    Append(fb, [id |-> Len(fb) + 1, user_id |-> u, song_id |-> s, liked |-> v])

\* an upsert keyed by the song alone: every row of the song takes the value
WriteFeedback_any_user(fb, found, u, s, v) ==
    IF \E i \in DOMAIN fb : fb[i].song_id = s
    THEN [i \in DOMAIN fb |->
            IF fb[i].song_id = s THEN [fb[i] EXCEPT !.liked = v] ELSE fb[i]]
    ELSE InsertFeedback(fb, u, s, v)

\* if existing: UPDATE ... else: INSERT ...
WriteFeedback(fb, found, u, s, v) ==
    IF found # 0 THEN UpdateLiked(fb, found, v) ELSE InsertFeedback(fb, u, s, v)

\* one call of save_feedback run alone, from its SELECT to its commit
SaveFeedback ==
    /\ fb_calls < MaxCalls
    /\ \A p \in Procs : pc[p] = "idle"
    /\ resp = NoResp
    /\ \E u \in Users, s \in SongIds, v \in BOOLEAN :
         /\ feedback' = WriteFeedback(feedback, SelectExisting(feedback, u, s),
                                      u, s, v)
         /\ fb_call' = <<u, s, v>>
         /\ fb_repeat' = (fb_call = <<u, s, v>>)
         /\ fb_last' = [fb_last EXCEPT ![<<u, s>>] = <<v>>]
    /\ fb_calls' = fb_calls + 1
    /\ UNCHANGED <<rec_vars, score_vars, pl_vars, songs, users, conc_vars, resp>>

----------------------------------------------------------------------------
(* save_feedback in concurrent requests: each request has its own connection *)
(* (get_db), its SELECT runs outside a transaction, its UPDATE or INSERT    *)
(* opens one and takes the write lock, commit() releases it.                *)

WriteLockFree(p) == \A q \in Procs \ {p} : pc[q] # "written"

\* cursor.execute(SELECT ...); existing = cursor.fetchone()
FbSelect(p) ==
    /\ pc[p] = "idle"
    /\ fb_calls < MaxCalls
    /\ \E u \in Users, s \in SongIds, v \in BOOLEAN :
         /\ req' = [req EXCEPT ![p] = <<u, s, v>>]
         /\ existing' = [existing EXCEPT ![p] = SelectExisting(feedback, u, s)]
    /\ pc' = [pc EXCEPT ![p] = "selected"]
    /\ fb_calls' = fb_calls + 1
    /\ UNCHANGED <<rec_vars, score_vars, pl_vars, store_vars, fb_call, fb_last, fb_repeat, resp>>

\* cursor.execute(UPDATE ... | INSERT ...): the write waits for the lock
FbWrite(p) ==
    /\ pc[p] = "selected"
    /\ WriteLockFree(p)
    /\ pc' = [pc EXCEPT ![p] = "written"]
    /\ UNCHANGED <<rec_vars, score_vars, pl_vars, store_vars, fb_vars, req, existing, resp>>

\* the wait for the lock times out: OperationalError, nothing is written
FbLocked(p) ==
    /\ pc[p] = "selected"
    /\ ~WriteLockFree(p)
    /\ pc' = [pc EXCEPT ![p] = "idle"]
    /\ UNCHANGED <<rec_vars, score_vars, pl_vars, store_vars, fb_vars, req, existing, resp>>

\* db.commit(): the write of this request becomes the table's state
FbCommit(p) ==
    /\ pc[p] = "written"
    /\ feedback' = WriteFeedback(feedback, existing[p],
                                 req[p][1], req[p][2], req[p][3])
    /\ fb_last' = [fb_last EXCEPT ![<<req[p][1], req[p][2]>>] = <<req[p][3]>>]
    /\ pc' = [pc EXCEPT ![p] = "idle"]
    /\ UNCHANGED <<rec_vars, score_vars, pl_vars, songs, users, fb_call, fb_calls, fb_repeat,
                   req, existing, resp>>

----------------------------------------------------------------------------
(* QuizService.get_quiz_songs and the route POST /quiz/start *)

NotEnoughSongs == "Not enough songs in database"
SampleError    == "Sample larger than population or is negative"

\* rated_song_ids of the user
RatedSongIds(fb, u) ==
    { fb[i].song_id : i \in { j \in DOMAIN fb : fb[j].user_id = u } }

\* a size check that also refuses n = len(all_songs)
TooFewSongs_strict(all, n) == Len(all) <= n

\* if len(all_songs) < n: raise ValueError
TooFewSongs(all, n) == Len(all) < n

\* a fill that takes one rated song too few
FillSize_short(n, unrated, rated_songs) ==
    Min(n - Len(unrated) - 1, Len(rated_songs))

\* min(n - len(unrated_songs), len(rated_songs))
FillSize(n, unrated, rated_songs) == Min(n - Len(unrated), Len(rated_songs))

\* the outcomes of get_quiz_songs: a raised ValueError or a returned list
GetQuizSongs(all, fb, u, n) ==
    IF TooFewSongs(all, n)
    THEN { [error |-> NotEnoughSongs, body |-> <<>>] }
    ELSE LET rated   == RatedSongIds(fb, u)
             unrated == SelectSeq(all, LAMBDA s : s.id \notin rated)
         IN  IF Len(unrated) < n
             THEN LET rated_songs == SelectSeq(all, LAMBDA s : s.id \in rated)
                  IN  { [error |-> "", body |-> unrated \o extra] :
                          extra \in Samples(rated_songs,
                                            FillSize(n, unrated, rated_songs)) }
             ELSE IF n < 0
                  THEN { [error |-> SampleError, body |-> <<>>] }
                  ELSE { [error |-> "", body |-> picked] :
                           picked \in Samples(unrated, n) }

\* user_id of the request: absent (0), a user of the table, an unknown id
RequestUserIds == {0} \cup Users \cup {9}
QuizSizes == -1 .. NumSongs + 1

StartQuiz ==
    /\ \A p \in Procs : pc[p] = "idle"
    /\ resp = NoResp
    /\ \E user_id \in RequestUserIds, n \in QuizSizes :
         LET answer(status, body, error) ==
                 [route |-> "start_quiz", user_id |-> user_id, n |-> n,
                  status |-> status, body |-> body, error |-> error]
         IN  IF user_id = 0
             THEN resp' = answer(400, <<>>, "user_id is required")
             ELSE IF get_user_by_id(users, user_id) = <<>>
             THEN resp' = answer(404, <<>>, "User not found")
             ELSE \E out \in GetQuizSongs(songs, feedback, user_id, n) :
                    resp' = IF out.error # ""
                            THEN answer(400, <<>>, out.error)
                            ELSE answer(200, out.body, "")
    /\ UNCHANGED <<rec_vars, score_vars, pl_vars, store_vars, fb_vars, conc_vars>>

\* return jsonify(...), status: the response leaves and the request's recommender
\* call with it, the next request can start
SendResponse ==
    /\ resp # NoResp
    /\ resp' = NoResp
    /\ all_songs' = <<>>
    /\ liked_songs' = <<>>
    /\ disliked_songs' = <<>>
    /\ count' = 0
    /\ preferred_genre' = <<>>
    /\ seed_song' = <<>>
    /\ scored_songs' = <<>>
    /\ result' = <<>>
    /\ rec_op' = "none"
    /\ UNCHANGED <<score_vars, pl_vars, store_vars, fb_vars, conc_vars>>

----------------------------------------------------------------------------
(* Specifications over the store *)

RecIdle ==
    /\ all_songs = <<>>
    /\ liked_songs = <<>>
    /\ disliked_songs = <<>>
    /\ count = 0
    /\ preferred_genre = <<>>
    /\ seed_song = <<>>
    /\ scored_songs = <<>>
    /\ result = <<>>
    /\ rec_op = "none"

\* requests served one at a time
Init ==
    /\ RecIdle
    /\ \E k \in 0..NumSongs : songs = SongTable(k)
    /\ StoreIdle
    /\ ScoreIdle
    /\ PlaylistsIdle

Next == SaveFeedback \/ StartQuiz \/ SendResponse

Spec == Init /\ [][Next]_vars

\* save_feedback requests served concurrently
InitConc ==
    /\ RecIdle
    /\ songs = SongTable(NumSongs)
    /\ StoreIdle
    /\ ScoreIdle
    /\ PlaylistsIdle

NextConc == \E p \in Procs : FbSelect(p) \/ FbWrite(p) \/ FbLocked(p) \/ FbCommit(p)

SpecConc == InitConc /\ [][NextConc]_vars

----------------------------------------------------------------------------
(* PlaylistService and the /playlists routes *)

IdsOfRows(table) == { table[i].id : i \in DOMAIN table }

\* SongService.get_song_by_id: <<row>>, or <<>> for None
get_song_by_id(table, song_id) ==
    LET found == SelectSeq(table, LAMBDA s : s.id = song_id)
    IN  IF found = <<>> THEN <<>> ELSE <<found[1]>>

\* cursor.lastrowid of an INSERT into a table whose id is INTEGER PRIMARY KEY
\* without AUTOINCREMENT: the largest rowid plus one
LastRowId(table) ==
    IF table = <<>> THEN 1
    ELSE (CHOOSE m \in IdsOfRows(table) : \A k \in IdsOfRows(table) : k <= m) + 1

\* an enumeration that starts at 0
Enumerate_from_zero(song_ids) ==
    [i \in DOMAIN song_ids |-> [position |-> i - 1, song_id |-> song_ids[i]]]

\* enumerate(song_ids, start=1)
Enumerate(song_ids) ==
    [i \in DOMAIN song_ids |-> [position |-> i, song_id |-> song_ids[i]]]

\* the INSERTs INTO playlist_songs of the loop, one row per pair
RECURSIVE InsertPlaylistSongs(_, _, _)
InsertPlaylistSongs(ps, playlist_id, pairs) ==
    IF pairs = <<>> THEN ps
    ELSE InsertPlaylistSongs(
             Append(ps, [id |-> LastRowId(ps), playlist_id |-> playlist_id,
                         song_id |-> pairs[1].song_id,
                         position |-> pairs[1].position]),
             playlist_id, Tail(pairs))

\* PlaylistService.create_playlist: both tables at the commit and the returned id
create_playlist(pl, ps, user_id, name, song_ids) ==
    LET playlist_id == LastRowId(pl)
    IN  [playlists |-> Append(pl, [id |-> playlist_id, user_id |-> user_id,
                                   name |-> name]),
         playlist_songs |-> InsertPlaylistSongs(ps, playlist_id,
                                                Enumerate(song_ids)),
         playlist_id |-> playlist_id]

\* ORDER BY ps.position: rows in ascending position
RECURSIVE SortByPosition(_)
SortByPosition(rows) ==
    IF rows = <<>> THEN <<>>
    ELSE LET rest == SortByPosition(Tail(rows))
             before == SelectSeq(rest, LAMBDA r : r.position < rows[1].position)
             after  == SelectSeq(rest, LAMBDA r : r.position >= rows[1].position)
         IN  before \o <<rows[1]>> \o after

\* PlaylistService.get_playlist_by_id: <<>> for None, else <<playlist dict>>
\* whose songs are the rows of songs JOIN playlist_songs in position order
get_playlist_by_id(pl, ps, table, playlist_id) ==
    LET found == SelectSeq(pl, LAMBDA r : r.id = playlist_id)
        joined == SelectSeq(ps, LAMBDA r : /\ r.playlist_id = playlist_id
                                           /\ get_song_by_id(table, r.song_id) # <<>>)
        sorted == SortByPosition(joined)
    IN  IF found = <<>> THEN <<>>
        ELSE <<[id |-> found[1].id, user_id |-> found[1].user_id,
                name |-> found[1].name,
                songs |-> [i \in DOMAIN sorted |->
                             [position |-> sorted[i].position,
                              song |-> get_song_by_id(table, sorted[i].song_id)[1]]]]>>

\* a delete that leaves the ordering entries in place
DeletePlaylistSongs_none(ps, playlist_id) == ps

\* DELETE FROM playlist_songs WHERE playlist_id = ?
DeletePlaylistSongs(ps, playlist_id) ==
    SelectSeq(ps, LAMBDA r : r.playlist_id # playlist_id)

\* PlaylistService.delete_playlist: what it returns and both tables at the commit
delete_playlist(pl, ps, playlist_id) ==
    IF SelectSeq(pl, LAMBDA r : r.id = playlist_id) = <<>>
    THEN [deleted |-> FALSE, playlists |-> pl, playlist_songs |-> ps]
    ELSE [deleted |-> TRUE,
          playlists |-> SelectSeq(pl, LAMBDA r : r.id # playlist_id),
          playlist_songs |-> DeletePlaylistSongs(ps, playlist_id)]

\* a verification that looks at the first id only
FirstMissingSong_head(table, song_ids) ==
    IF song_ids # <<>> /\ get_song_by_id(table, song_ids[1]) = <<>>
    THEN <<song_ids[1]>> ELSE <<>>

\* for song_id in song_ids: if not get_song_by_id(...): the first id without a
\* songs row as <<id>>, <<>> when every id has one
FirstMissingSong(table, song_ids) ==
    LET missing == SelectSeq(song_ids, LAMBDA s : get_song_by_id(table, s) = <<>>)
    IN  IF missing = <<>> THEN <<>> ELSE <<missing[1]>>

\* name of the request: absent or empty, a name
PlaylistNames == {"", "mix"}
\* song_ids of the request: absent or empty, existing ids (with a repeat), lists
\* with the id 9 of no song
SongIdLists == {<<>>, <<1>>, <<2, 1>>, <<3, 1, 3>>, <<9>>, <<1, 9>>}
\* ids of the URL: the ids create_playlist can return and one more
PlaylistIds == 1..(MaxPlaylists + 1)

\* POST /playlists
CreatePlaylist ==
    /\ resp = NoResp
    /\ \E user_id \in RequestUserIds, name \in PlaylistNames,
          song_ids \in SongIdLists :
         LET answer(status, playlist_id, error) ==
                 [route |-> "create_playlist", user_id |-> user_id,
                  name |-> name, song_ids |-> song_ids, status |-> status,
                  playlist_id |-> playlist_id, error |-> error]
             made == create_playlist(playlists, playlist_songs, user_id, name,
                                     song_ids)
         IN  IF user_id = 0 \/ name = "" \/ song_ids = <<>>
             THEN /\ resp' = answer(400, 0, "user_id, name, and song_ids are required")
                  /\ UNCHANGED pl_vars
             ELSE IF get_user_by_id(users, user_id) = <<>>
             THEN /\ resp' = answer(404, 0, "User not found")
                  /\ UNCHANGED pl_vars
             ELSE IF FirstMissingSong(songs, song_ids) # <<>>
             THEN /\ resp' = answer(404, 0, "Song not found")
                  /\ UNCHANGED pl_vars
             ELSE /\ pl_count < MaxPlaylists
                  /\ playlists' = made.playlists
                  /\ playlist_songs' = made.playlist_songs
                  /\ pl_input' = (made.playlist_id :> <<song_ids>>) @@ pl_input
                  /\ pl_count' = pl_count + 1
                  /\ resp' = answer(201, made.playlist_id, "")
    /\ UNCHANGED <<rec_vars, score_vars, store_vars, fb_vars, conc_vars>>

\* GET /playlists/<playlist_id>
GetPlaylist ==
    /\ resp = NoResp
    /\ \E playlist_id \in PlaylistIds :
         LET playlist == get_playlist_by_id(playlists, playlist_songs, songs,
                                            playlist_id)
             answer(status, body, error) ==
                 [route |-> "get_playlist", playlist_id |-> playlist_id,
                  status |-> status, body |-> body, error |-> error]
         IN  resp' = IF playlist = <<>>
                     THEN answer(404, <<>>, "Playlist not found")
                     ELSE answer(200, playlist[1], "")
    /\ UNCHANGED <<rec_vars, score_vars, store_vars, fb_vars, conc_vars, pl_vars>>

\* DELETE /playlists/<playlist_id>
DeletePlaylist ==
    /\ resp = NoResp
    /\ \E playlist_id \in PlaylistIds :
         LET out == delete_playlist(playlists, playlist_songs, playlist_id)
             answer(status, error) ==
                 [route |-> "delete_playlist", playlist_id |-> playlist_id,
                  status |-> status, error |-> error]
         IN  /\ playlists' = out.playlists
             /\ playlist_songs' = out.playlist_songs
             /\ pl_input' = IF out.deleted
                             THEN [pl_input EXCEPT ![playlist_id] = <<>>]
                             ELSE pl_input
             /\ resp' = IF out.deleted THEN answer(200, "")
                         ELSE answer(404, "Playlist not found")
    /\ UNCHANGED <<rec_vars, score_vars, store_vars, fb_vars, conc_vars, pl_count>>

InitPlaylists ==
    /\ RecIdle
    /\ songs = SongTable(NumSongs)
    /\ StoreIdle
    /\ ScoreIdle
    /\ PlaylistsIdle

NextPlaylists == CreatePlaylist \/ GetPlaylist \/ DeletePlaylist \/ SendResponse

SpecPlaylists == InitPlaylists /\ [][NextPlaylists]_vars

----------------------------------------------------------------------------
(* UserService.get_or_create_user and POST /users *)

\* a lookup that finds nothing
SelectUserByName_none(table, name) == <<>>

\* SELECT * FROM users WHERE name = ?, fetchone: <<row>>, or <<>> for None
SelectUserByName(table, name) ==
    LET found == SelectSeq(table, LAMBDA u : u.name = name)
    IN  IF found = <<>> THEN <<>> ELSE <<found[1]>>

\* UserService.get_or_create_user: the table at its return and the user dict
\* (<<>> when the last fetchone returns None); the INSERT of a name the table
\* holds raises IntegrityError (name TEXT UNIQUE)
get_or_create_user(table, name) ==
    LET user == SelectUserByName(table, name)
        inserted == Append(table, [id |-> LastRowId(table), name |-> name])
    IN  IF user # <<>>
        THEN [raised |-> FALSE, users |-> table, user |-> user[1]]
        ELSE IF \E i \in DOMAIN table : table[i].name = name
        THEN [raised |-> TRUE, users |-> table, user |-> <<>>]
        ELSE LET again == SelectUserByName(inserted, name)
             IN  [raised |-> FALSE, users |-> inserted,
                  user |-> IF again = <<>> THEN <<>> ELSE again[1]]

\* name of the request: <<>> when the key is absent, else <<string>>
UserNameInputs == {<<>>, <<"">>, <<"ann">>, <<"bob">>, <<"cy">>, <<"dee">>}

\* POST /users
CreateUser ==
    /\ resp = NoResp
    /\ \E name \in UserNameInputs :
         LET answer(status, body, error) ==
                 [route |-> "create_user", name |-> name, status |-> status,
                  body |-> body, error |-> error]
         IN  IF name = <<>> \/ name[1] = ""
             THEN /\ resp' = answer(400, <<>>, "Name is required")
                  /\ UNCHANGED users
             ELSE LET out == get_or_create_user(users, name[1])
                  IN  IF out.raised
                      THEN /\ resp' = answer(500, <<>>, "IntegrityError")
                           /\ UNCHANGED users
                      ELSE /\ resp' = answer(200, out.user, "")
                           /\ users' = out.users
    /\ UNCHANGED <<rec_vars, score_vars, pl_vars, songs, feedback, fb_vars,
                   conc_vars>>

\* an empty users table
InitUsers ==
    /\ RecIdle
    /\ songs = SongTable(NumSongs)
    /\ users = <<>>
    /\ RequestsIdle
    /\ ScoreIdle
    /\ PlaylistsIdle

NextUsers == CreateUser \/ SendResponse

SpecUsers == InitUsers /\ [][NextUsers]_vars

----------------------------------------------------------------------------
(* POST /quiz/answer and POST /playlists/generate *)

\* a verification that accepts every song id
SongMissing_never(table, song_id) == FALSE

\* song = SongService.get_song_by_id(db, song_id); if not song
SongMissing(table, song_id) == get_song_by_id(table, song_id) = <<>>

\* song_id of the request: absent (0), a song of the table, an unknown id
RequestSongIds == {0} \cup SongIds \cup {9}
\* liked of the request: <<>> when the key is absent, else <<value>>
LikedInputs == {<<>>, <<TRUE>>, <<FALSE>>}

\* a test by truth value, which takes liked = false for a missing field
LikedMissing_falsy(liked) == liked = <<>> \/ ~liked[1]

\* liked is not None, negated: the field is absent or null
LikedMissing(liked) == liked = <<>>

\* POST /quiz/answer
AnswerQuiz ==
    /\ \A p \in Procs : pc[p] = "idle"
    /\ resp = NoResp
    /\ \E user_id \in RequestUserIds, song_id \in RequestSongIds,
          liked \in LikedInputs :
         LET answer(status, error) ==
                 [route |-> "answer_quiz", user_id |-> user_id,
                  song_id |-> song_id, liked |-> liked, status |-> status,
                  error |-> error]
         IN  IF user_id = 0 \/ song_id = 0 \/ LikedMissing(liked)
             THEN /\ resp' = answer(400, "user_id, song_id, and liked are required")
                  /\ UNCHANGED <<feedback, fb_vars>>
             ELSE IF get_user_by_id(users, user_id) = <<>>
             THEN /\ resp' = answer(404, "User not found")
                  /\ UNCHANGED <<feedback, fb_vars>>
             ELSE IF SongMissing(songs, song_id)
             THEN /\ resp' = answer(404, "Song not found")
                  /\ UNCHANGED <<feedback, fb_vars>>
             ELSE /\ fb_calls < MaxCalls
                  /\ feedback' = WriteFeedback(feedback,
                                     SelectExisting(feedback, user_id, song_id),
                                     user_id, song_id, liked[1])
                  /\ fb_call' = <<user_id, song_id, liked[1]>>
                  /\ fb_repeat' = (fb_call = <<user_id, song_id, liked[1]>>)
                  /\ fb_last' = [fb_last EXCEPT ![<<user_id, song_id>>] = liked]
                  /\ fb_calls' = fb_calls + 1
                  /\ resp' = answer(200, "")
    /\ UNCHANGED <<rec_vars, score_vars, pl_vars, songs, users, conc_vars>>

\* a query without WHERE f.user_id = ?: the feedback of every user
get_user_feedback_every_user(fb, table, user_id) ==
    LET pos   == SelectSeq(fb, LAMBDA r : r.liked)
        neg   == SelectSeq(fb, LAMBDA r : ~r.liked)
        song(r) == get_song_by_id(table, r.song_id)[1]
    IN  [liked    |-> [i \in DOMAIN pos |-> song(pos[i])],
         disliked |-> [i \in DOMAIN neg |-> song(neg[i])]]

\* QuizService.get_user_feedback: the songs of the user's feedback rows, in rowid
\* order, those with a truthy liked and the others
get_user_feedback(fb, table, user_id) ==
    LET rows  == SelectSeq(fb, LAMBDA r : r.user_id = user_id)
        pos   == SelectSeq(rows, LAMBDA r : r.liked)
        neg   == SelectSeq(rows, LAMBDA r : ~r.liked)
        song(r) == get_song_by_id(table, r.song_id)[1]
    IN  [liked    |-> [i \in DOMAIN pos |-> song(pos[i])],
         disliked |-> [i \in DOMAIN neg |-> song(neg[i])]]

\* LIKE compares the ASCII letters without regard to case
LowerCase(c) ==
    CASE c = "D" -> "d" [] c = "M" -> "m" [] c = "N" -> "n" [] c = "O" -> "o"
      [] c = "S" -> "s" [] c = "U" -> "u" [] OTHER -> c

\* title LIKE '%name%'
TitleLike(title, name) ==
    \E k \in 0..(Len(title) - Len(name)) :
        \A i \in 1..Len(name) : LowerCase(title[k + i]) = LowerCase(name[i])

\* SongService.search_song_by_name: LIMIT 1, <<row>> or <<>> for None
search_song_by_name(table, name) ==
    LET found == SelectSeq(table, LAMBDA s : TitleLike(s.title, name))
    IN  IF found = <<>> THEN <<>> ELSE <<found[1]>>

\* a route that goes on without the seed
SeedNotFound_ignored(seed_song_name, seed) == FALSE

\* if seed_song_name: ... if not seed_song
SeedNotFound(seed_song_name, seed) == seed_song_name # <<>> /\ seed = <<>>

\* a route that records the seed as a liked song
FeedbackAfterGenerate_seed(fb, user_id, seed) ==
    IF seed = <<>> THEN fb
    ELSE WriteFeedback(fb, SelectExisting(fb, user_id, seed[1].id),
                       user_id, seed[1].id, TRUE)

\* the route runs SELECTs only: user_song_feedback at its return
FeedbackAfterGenerate(fb, user_id, seed) == fb

\* count, genre and seed_song_name of the request; <<>> is an absent or empty
\* seed_song_name
GenCounts == {MaxCount - 1}
GenGenres == {<<>>, <<"deep-house">>}
SeedNames == {<<>>, <<"U">>, <<"z", "z">>}

\* POST /playlists/generate
GeneratePlaylist ==
    /\ \A p \in Procs : pc[p] = "idle"
    /\ resp = NoResp
    /\ \E user_id \in RequestUserIds, n \in GenCounts, genre \in GenGenres,
          seed_song_name \in SeedNames :
         LET answer(status, body, error) ==
                 [route |-> "generate", user_id |-> user_id, count |-> n,
                  genre |-> genre, seed_song_name |-> seed_song_name,
                  status |-> status, body |-> body, error |-> error]
             fbk  == get_user_feedback(feedback, songs, user_id)
             seed == IF seed_song_name # <<>>
                     THEN search_song_by_name(songs, seed_song_name)
                     ELSE <<>>
         IN  IF user_id = 0
             THEN /\ resp' = answer(400, <<>>, "user_id is required")
                  /\ UNCHANGED <<rec_vars, feedback>>
             ELSE IF get_user_by_id(users, user_id) = <<>>
             THEN /\ resp' = answer(404, <<>>, "User not found")
                  /\ UNCHANGED <<rec_vars, feedback>>
             ELSE IF SeedNotFound(seed_song_name, seed)
             THEN /\ resp' = answer(404, <<>>, "No song found matching")
                  /\ UNCHANGED <<rec_vars, feedback>>
             ELSE /\ all_songs' = songs
                  /\ liked_songs' = fbk.liked
                  /\ disliked_songs' = fbk.disliked
                  /\ count' = n
                  /\ preferred_genre' = genre
                  /\ seed_song' = seed
                  /\ feedback' = FeedbackAfterGenerate(feedback, user_id, seed)
                  /\ IF fbk.liked = <<>> /\ fbk.disliked = <<>>
                     THEN \E r \in ColdStartResults(songs, n, genre) :
                            /\ scored_songs' = <<>>
                            /\ result' = r
                            /\ rec_op' = "cold"
                            /\ resp' = answer(200, r, "")
                     ELSE \E jit \in [IdsOfRows(songs) -> JitterValues] :
                            IF GenerateRaises(songs, fbk.liked, fbk.disliked)
                            THEN /\ scored_songs' = <<>>
                                 /\ result' = <<>>
                                 /\ rec_op' = "warm_raised"
                                 /\ resp' = answer(500, <<>>, "TypeError")
                            ELSE LET scored == ScoredSongs(songs, fbk.liked,
                                                  fbk.disliked, genre, seed, jit)
                                 IN  /\ scored_songs' = scored
                                     /\ result' = SongsOf(TopN(scored, n))
                                     /\ rec_op' = "warm"
                                     /\ resp' = answer(200,
                                                   SongsOf(TopN(scored, n)), "")
    /\ UNCHANGED <<score_vars, pl_vars, songs, users, fb_vars, conc_vars>>

InitGen ==
    /\ RecIdle
    /\ songs = SongTable(NumSongs)
    /\ StoreIdle
    /\ ScoreIdle
    /\ PlaylistsIdle

NextGen == AnswerQuiz \/ GeneratePlaylist \/ SendResponse

SpecGen == InitGen /\ [][NextGen]_vars

----------------------------------------------------------------------------
(* The single-file application, src/app.py: its own _score_song and its own *)
(* /api/playlists/generate, with the weights written as literals            *)

\* _score_song before the jitter: 2.0, 1.0, 0.5, 0.3 within 8, 0.2 within 5,
\* and for the seed 1.0, 1.0, 1.0 a tag, 0.3 within 8
app_score_base(song, liked, disliked, seed) ==
    LET song_tags == TagSet(song.tags)
        liked_bpms == SelectSeq(liked, LAMBDA s : Truthy(s.bpm))
        bpm_sum == SumSeq([i \in DOMAIN liked_bpms |-> liked_bpms[i].bpm[1]])
        year_sum == SumSeq([i \in DOMAIN liked |-> liked[i].year[1]])
    IN    200 * CountMatches(liked, LAMBDA l : song.artist = l.artist)
        - 200 * CountMatches(disliked, LAMBDA d : song.artist = d.artist)
        + 100 * CountMatches(liked, LAMBDA l : song.subgenre = l.subgenre)
        - 100 * CountMatches(disliked, LAMBDA d : song.subgenre = d.subgenre)
        + SumSeq([i \in DOMAIN liked |->
                    Cardinality(song_tags \cap TagSet(liked[i].tags)) * 50])
        + (IF /\ Truthy(song.bpm)
              /\ liked # <<>>
              /\ liked_bpms # <<>>
              /\ Abs(song.bpm[1] * Len(liked_bpms) - bpm_sum)
                   <= 8 * Len(liked_bpms)
           THEN 30 ELSE 0)
        + (IF /\ liked # <<>>
              /\ Abs(song.year[1] * Len(liked) - year_sum) <= 5 * Len(liked)
           THEN 20 ELSE 0)
        + (IF seed # <<>>
           THEN   (IF song.artist = seed[1].artist THEN 100 ELSE 0)
                + (IF song.subgenre = seed[1].subgenre THEN 100 ELSE 0)
                + Cardinality(song_tags \cap TagSet(seed[1].tags)) * 100
                + (IF /\ Truthy(song.bpm)
                      /\ Truthy(seed[1].bpm)
                      /\ Abs(song.bpm[1] - seed[1].bpm[1]) <= 8
                   THEN 30 ELSE 0)
           ELSE 0)

\* the era block of _score_song fails with TypeError on a None year
app_score_raises(song, liked) ==
    /\ liked # <<>>
    /\ \/ song.year = <<>>
       \/ \E i \in DOMAIN liked : liked[i].year = <<>>

\* first loop of the route: the songs of the genre that are not disliked, scored
\* with 5.0 added
RECURSIVE AppGenrePass(_, _, _, _, _, _)
AppGenrePass(pool, scored, liked, disliked, seed, jit) ==
    IF pool = <<>> THEN scored
    ELSE LET song == Head(pool) IN
         IF \E i \in DOMAIN disliked : disliked[i].id = song.id
         THEN AppGenrePass(Tail(pool), scored, liked, disliked, seed, jit)
         ELSE AppGenrePass(Tail(pool),
                  Append(scored,
                         [song  |-> song,
                          score |-> app_score_base(song, liked, disliked, seed)
                                    + jit[song.id] + 500]),
                  liked, disliked, seed, jit)

\* second loop of the route: every other song that is not disliked
RECURSIVE AppFillPass(_, _, _, _, _, _)
AppFillPass(pool, scored, liked, disliked, seed, jit) ==
    IF pool = <<>> THEN scored
    ELSE LET song == Head(pool) IN
         IF \/ \E i \in DOMAIN disliked : disliked[i].id = song.id
            \/ \E i \in DOMAIN scored : scored[i].song.id = song.id
         THEN AppFillPass(Tail(pool), scored, liked, disliked, seed, jit)
         ELSE AppFillPass(Tail(pool),
                  Append(scored,
                         [song  |-> song,
                          score |-> app_score_base(song, liked, disliked, seed)
                                    + jit[song.id]]),
                  liked, disliked, seed, jit)

\* the warm branch of the route: score, sort, slice
AppRecommended(pool, liked, disliked, n, genre, seed, jit) ==
    LET given == genre # <<>> /\ genre[1] # ""
        preferred_songs == IF given
                           THEN SelectSeq(pool, LAMBDA s : s.subgenre = genre[1])
                           ELSE <<>>
        first == IF given /\ preferred_songs # <<>>
                 THEN AppGenrePass(preferred_songs, <<>>, liked, disliked,
                                   seed, jit)
                 ELSE <<>>
        scored == SortDesc(AppFillPass(pool, first, liked, disliked, seed, jit),
                           <<>>)
    IN  SongsOf(TopN(scored, n))

\* the branch of the route for a user without feedback
AppColdStart(pool, n, genre) ==
    LET given == genre # <<>> /\ genre[1] # ""
        preferred_songs == IF given
                           THEN SelectSeq(pool, LAMBDA s : s.subgenre = genre[1])
                           ELSE <<>>
        remaining_songs == SelectSeq(pool, LAMBDA s :
                               \A i \in DOMAIN preferred_songs :
                                   preferred_songs[i].id # s.id)
        needed == n - Len(preferred_songs)
    IN  IF given /\ Len(preferred_songs) >= n
        THEN Samples(preferred_songs, n)
        ELSE IF needed > 0 /\ remaining_songs # <<>>
        THEN { preferred_songs \o extra :
                 extra \in Samples(remaining_songs,
                                   Min(needed, Len(remaining_songs))) }
        ELSE { preferred_songs }

Outcome(status, body, error) ==
    [status |-> status, body |-> body, error |-> error]

\* generate_playlist of src/app.py: the responses it can give to the request on
\* the tables as they are
app_generate_playlist(user_id, n, genre, seed_song_name) ==
    LET feedbacks == SelectSeq(feedback, LAMBDA r : r.user_id = user_id)
        song(r) == get_song_by_id(songs, r.song_id)[1]
        pos == SelectSeq(feedbacks, LAMBDA r : r.liked)
        neg == SelectSeq(feedbacks, LAMBDA r : ~r.liked)
        liked == [i \in DOMAIN pos |-> song(pos[i])]
        disliked == [i \in DOMAIN neg |-> song(neg[i])]
        seed == IF seed_song_name # <<>>
                THEN search_song_by_name(songs, seed_song_name)
                ELSE <<>>
    IN  IF user_id = 0
        THEN { Outcome(400, <<>>, "user_id is required") }
        ELSE IF SelectSeq(users, LAMBDA u : u.id = user_id) = <<>>
        THEN { Outcome(404, <<>>, "User not found") }
        ELSE IF feedbacks = <<>>
        THEN { Outcome(200, r, "") : r \in AppColdStart(songs, n, genre) }
        ELSE IF seed_song_name # <<>> /\ seed = <<>>
        THEN { Outcome(404, <<>>, "No song found matching") }
        ELSE IF \E i \in DOMAIN songs :
                  /\ \A k \in DOMAIN disliked : disliked[k].id # songs[i].id
                  /\ app_score_raises(songs[i], liked)
        THEN { Outcome(500, <<>>, "TypeError") }
        ELSE { Outcome(200, AppRecommended(songs, liked, disliked, n, genre,
                                           seed, jit), "") :
                 jit \in [IdsOfRows(songs) -> JitterValues] }

\* generate_playlist of routes/playlists.py: the responses it can give to the
\* request on the tables as they are
RouteOutcomes(user_id, n, genre, seed_song_name) ==
    LET fbk  == get_user_feedback(feedback, songs, user_id)
        seed == IF seed_song_name # <<>>
                THEN search_song_by_name(songs, seed_song_name)
                ELSE <<>>
    IN  IF user_id = 0
        THEN { Outcome(400, <<>>, "user_id is required") }
        ELSE IF get_user_by_id(users, user_id) = <<>>
        THEN { Outcome(404, <<>>, "User not found") }
        ELSE IF SeedNotFound(seed_song_name, seed)
        THEN { Outcome(404, <<>>, "No song found matching") }
        ELSE IF fbk.liked = <<>> /\ fbk.disliked = <<>>
        THEN { Outcome(200, r, "") : r \in ColdStartResults(songs, n, genre) }
        ELSE IF GenerateRaises(songs, fbk.liked, fbk.disliked)
        THEN { Outcome(500, <<>>, "TypeError") }
        ELSE { Outcome(200,
                       SongsOf(TopN(ScoredSongs(songs, fbk.liked, fbk.disliked,
                                                genre, seed, jit), n)), "") :
                 jit \in [IdsOfRows(songs) -> JitterValues] }

\* POST /api/playlists/generate of src/app.py
AppGeneratePlaylist ==
    /\ \A p \in Procs : pc[p] = "idle"
    /\ resp = NoResp
    /\ \E user_id \in RequestUserIds, n \in GenCounts, genre \in GenGenres,
          seed_song_name \in SeedNames :
         \E o \in app_generate_playlist(user_id, n, genre, seed_song_name) :
             resp' = [route |-> "app_generate", user_id |-> user_id,
                      count |-> n, genre |-> genre,
                      seed_song_name |-> seed_song_name, status |-> o.status,
                      body |-> o.body, error |-> o.error]
    /\ UNCHANGED <<rec_vars, score_vars, pl_vars, store_vars, fb_vars, conc_vars>>

\* the two applications on tables of the same content
NextApp == AnswerQuiz \/ GeneratePlaylist \/ AppGeneratePlaylist \/ SendResponse

SpecApp == InitGen /\ [][NextApp]_vars

----------------------------------------------------------------------------
(* Properties of the recommender, checked under SpecRec *)

GenreGiven == preferred_genre # <<>> /\ preferred_genre[1] # ""

IdsOf(list) == { list[i].id : i \in DOMAIN list }

NumWhere(list, Test(_)) == Cardinality({ i \in DOMAIN list : Test(list[i]) })

\* the songs of the pool that are not disliked
NumEligible ==
    NumWhere(all_songs, LAMBDA s : s.id \notin IdsOf(disliked_songs))

\* C1: generate_recommendations never returns a song whose id is the id of a
\* disliked song, whether or not the song matches the preferred genre.
C1_NoDislikedReturned ==
    rec_op = "warm" => IdsOf(result) \cap IdsOf(disliked_songs) = {}

\* a disliked song of the preferred genre was in the pool, the request asked for
\* the whole pool, and the rest of the pool was returned
C1_Witness ==
    /\ rec_op = "warm"
    /\ GenreGiven
    /\ \E i \in DOMAIN all_songs :
         /\ all_songs[i].id \in IdsOf(disliked_songs)
         /\ all_songs[i].subgenre = preferred_genre[1]
    /\ \E i \in DOMAIN all_songs :
         /\ all_songs[i].id \in IdsOf(disliked_songs)
         /\ all_songs[i].subgenre # preferred_genre[1]
    /\ count >= Len(all_songs)
    /\ result # <<>>

\* C2: the length of the generated list is min(count, eligible candidates): the
\* whole pool in the cold start, the songs that are not disliked in the warm path.
C2_LengthIsMin ==
    /\ rec_op = "warm" => Len(result) = Min(count, NumEligible)
    /\ rec_op = "cold" => Len(result) = Min(count, Len(all_songs))

\* warm path, a genre that no song matches, fewer eligible songs than asked for
C2_Witness ==
    /\ rec_op = "warm"
    /\ preferred_genre = <<"acid">>
    /\ disliked_songs # <<>>
    /\ 0 < NumEligible
    /\ NumEligible < count
    /\ Len(result) = NumEligible

\* C3: the returned list holds no song id twice, in the warm path and in the
\* cold start.
C3_NoDuplicateIds ==
    rec_op \in {"warm", "cold"} =>
        \A i, j \in DOMAIN result : i # j => result[i].id # result[j].id

\* warm path: a song scored with the bonus and a song scored in the fill pass are
\* both returned
C3_Witness ==
    /\ rec_op = "warm"
    /\ GenreGiven
    /\ \E i, j \in DOMAIN result :
         /\ result[i].subgenre = preferred_genre[1]
         /\ result[j].subgenre # preferred_genre[1]

\* C9: the cold start with a genre returns min(count, genre pool of the pool)
\* songs of the genre, only genre songs when there are enough of them, and
\* otherwise every genre song followed by distinct songs of other genres; with
\* no genre it returns min(count, pool size) distinct songs of the pool.
C9_ColdStartGenre ==
    rec_op = "cold" =>
        LET InGenre(s) == s.subgenre = preferred_genre[1]
            have == NumWhere(all_songs, InGenre)
        IN  /\ Range(result) \subseteq Range(all_songs)
            /\ Cardinality(Range(result)) = Len(result)
            /\ Len(result) = Min(count, Len(all_songs))
            /\ GenreGiven =>
                 /\ NumWhere(result, InGenre) = Min(count, have)
                 /\ have >= count => \A i \in DOMAIN result : InGenre(result[i])
                 /\ have < count =>
                      \A i \in DOMAIN all_songs :
                          InGenre(all_songs[i]) => all_songs[i] \in Range(result)

\* cold start with fewer genre songs than asked for: the genre song and fillers
C9_Witness ==
    /\ rec_op = "cold"
    /\ GenreGiven
    /\ \E i \in DOMAIN result : result[i].subgenre = preferred_genre[1]
    /\ \E i \in DOMAIN result : result[i].subgenre # preferred_genre[1]
    /\ Len(result) = count

\* C10: of two scored songs with equal scores before the jitter, the one of the
\* preferred genre has a ranking score at least GENRE_BONUS - 0.1 above the
\* other's, and is ranked before it.
C10_GenreBonusMargin ==
    (rec_op = "warm" /\ GenreGiven) =>
        \A a, b \in DOMAIN scored_songs :
            LET A == scored_songs[a].song
                B == scored_songs[b].song
            IN  ( /\ A.subgenre = preferred_genre[1]
                  /\ B.subgenre # preferred_genre[1]
                  /\ ScoreBase(A, liked_songs, disliked_songs, seed_song)
                       = ScoreBase(B, liked_songs, disliked_songs, seed_song) )
                => /\ scored_songs[a].score - scored_songs[b].score
                        >= GENRE_BONUS - JITTER_MAX
                   /\ a < b

\* such a pair with the smallest jitter on the genre song and the largest on the
\* other, with likes and a seed behind the equal scores
C10_Witness ==
    /\ rec_op = "warm"
    /\ GenreGiven
    /\ liked_songs # <<>>
    /\ \E a, b \in DOMAIN scored_songs :
         LET A == scored_songs[a].song
             B == scored_songs[b].song
         IN  /\ A.subgenre = preferred_genre[1]
             /\ B.subgenre # preferred_genre[1]
             /\ ScoreBase(A, liked_songs, disliked_songs, seed_song)
                  = ScoreBase(B, liked_songs, disliked_songs, seed_song)
             /\ scored_songs[a].score - scored_songs[b].score
                  = GENRE_BONUS - (JITTER_MAX - 1)

\* the songs of the pool that are not disliked, in pool order
Eligible == SelectSeq(all_songs, LAMBDA s : s.id \notin IdsOf(disliked_songs))

\* the positions of the ranking that hold the song
RankedAt(song) == { k \in DOMAIN scored_songs : scored_songs[k].song = song }

\* C21: the list generate_recommendations returns is in non-increasing order of
\* ranking score and is the top of the ranking: every eligible song is ranked,
\* and every eligible song left out of the result has a ranking score less than or
\* equal to that of every returned song.
C21_RankedTop ==
    rec_op = "warm"
    => /\ Len(result) <= Len(scored_songs)
       /\ \A i \in DOMAIN result : result[i] = scored_songs[i].song
       /\ \A i, j \in DOMAIN result :
            i < j => scored_songs[i].score >= scored_songs[j].score
       /\ \A i \in DOMAIN Eligible : RankedAt(Eligible[i]) # {}
       /\ \A i \in DOMAIN result, k \in DOMAIN scored_songs :
            scored_songs[k].song \notin Range(result)
            => scored_songs[k].score <= scored_songs[i].score

\* two songs returned in strictly decreasing score and a third, eligible, left out
C21_Witness ==
    /\ rec_op = "warm"
    /\ Len(result) = 2
    /\ scored_songs[1].score > scored_songs[2].score
    /\ Len(scored_songs) > 2
    /\ liked_songs # <<>>

\* the bonus the ranking owes the song
BonusOwed(song) ==
    IF GenreGiven /\ song.subgenre = preferred_genre[1] THEN GENRE_BONUS ELSE 0

\* C22: with a preferred genre, every non-disliked song of the pool is scored
\* exactly once, with GENRE_BONUS exactly once when its subgenre is the genre and
\* without it otherwise; no non-disliked song is left out of the ranking, so
\* songs of other genres fill the result when the genre has fewer than count
\* non-disliked songs.
C22_ScoredOnceWithBonus ==
    (rec_op = "warm" /\ GenreGiven)
    => /\ Len(scored_songs) = Len(Eligible)
       /\ \A i \in DOMAIN Eligible :
            /\ Cardinality(RankedAt(Eligible[i])) = 1
            /\ \A k \in RankedAt(Eligible[i]) :
                 scored_songs[k].score
                   - ScoreBase(Eligible[i], liked_songs, disliked_songs, seed_song)
                   - BonusOwed(Eligible[i]) \in 0..(JITTER_MAX - 1)
       /\ Len(result) = Min(count, Len(Eligible))

\* one eligible genre song, fewer than count, and songs of another genre after it
C22_Witness ==
    /\ rec_op = "warm"
    /\ GenreGiven
    /\ NumWhere(Eligible, LAMBDA s : s.subgenre = preferred_genre[1]) = 1
    /\ \E i \in DOMAIN all_songs :
         /\ all_songs[i].subgenre = preferred_genre[1]
         /\ all_songs[i].id \in IdsOf(disliked_songs)
    /\ count > 1
    /\ Len(result) > 1
    /\ result[1].subgenre = preferred_genre[1]
    /\ result[2].subgenre # preferred_genre[1]

\* C27: the songs the user liked stay in the candidate pool: every liked song
\* of all_songs that is not disliked is scored like any other candidate, and is
\* returned whenever count is at least the number of non-disliked songs.
C27_LikedStayCandidates ==
    rec_op = "warm"
    => \A i \in DOMAIN Eligible :
         Eligible[i].id \in IdsOf(liked_songs)
         => /\ \E k \in RankedAt(Eligible[i]) :
                 scored_songs[k].score
                   - ScoreBase(Eligible[i], liked_songs, disliked_songs, seed_song)
                   - BonusOwed(Eligible[i]) \in 0..(JITTER_MAX - 1)
            /\ count >= Len(Eligible) => Eligible[i] \in Range(result)

\* every song of the pool is liked, none disliked, and all are returned
C27_Witness ==
    /\ rec_op = "warm"
    /\ disliked_songs = <<>>
    /\ Len(all_songs) > 1
    /\ IdsOf(all_songs) \subseteq IdsOf(liked_songs)
    /\ count = Len(all_songs)
    /\ Len(result) = Len(all_songs)

----------------------------------------------------------------------------
(* Properties of save_feedback and of the quiz, checked under Spec (requests *)
(* served one at a time) and SpecConc (concurrent save_feedback requests)   *)

Pairs == Users \X SongIds

RowsOf(pair) == MatchingRows(feedback, pair[1], pair[2])

\* C4: after any sequence of save_feedback calls run one after the other, the
\* table holds at most one row per (user, song), and that row's liked is the
\* value of the most recent call for the pair.
C4_OneRecordLatestValue ==
    \A pair \in Pairs :
        /\ Len(RowsOf(pair)) <= 1
        /\ fb_last[pair] = <<>> => RowsOf(pair) = <<>>
        /\ fb_last[pair] # <<>> =>
             /\ Len(RowsOf(pair)) = 1
             /\ RowsOf(pair)[1].liked = fb_last[pair][1]

\* a pair rated twice, the second call with the other value
C4_Witness ==
    /\ fb_calls = 2
    /\ Len(feedback) = 1
    /\ fb_call # <<>>
    /\ feedback[1].liked = fb_call[3]
    /\ ~fb_repeat

\* C5: a save_feedback call with the arguments of the call before it leaves the
\* table as it was: one row for the pair, with the value passed.
C5_SaveFeedbackIdempotent ==
    [][ (fb_calls' = fb_calls + 1 /\ fb_repeat')
          => /\ feedback' = feedback
             /\ Len(MatchingRows(feedback', fb_call'[1], fb_call'[2])) = 1
             /\ MatchingRows(feedback', fb_call'[1], fb_call'[2])[1].liked
                  = fb_call'[3] ]_vars

\* the same call was made twice in a row
C5_Witness ==
    /\ fb_repeat
    /\ fb_calls >= 2
    /\ Len(RowsOf(<<fb_call[1], fb_call[2]>>)) = 1

Quiescent == \A p \in Procs : pc[p] = "idle"

\* C6: with the SELECT, the write and the commit of concurrent save_feedback
\* calls interleaved in any order, no (user, song) pair ever has two rows, and
\* when the calls have returned a written pair has exactly one row, holding the
\* value of the last committed write.
C6_ConcurrentUpsertUnique ==
    \A pair \in Pairs :
        /\ Len(RowsOf(pair)) <= 1
        /\ (Quiescent /\ fb_last[pair] # <<>>) =>
             /\ Len(RowsOf(pair)) = 1
             /\ RowsOf(pair)[1].liked = fb_last[pair][1]

QuizUserRated == RatedSongIds(feedback, resp.user_id)

NumUnrated == NumWhere(songs, LAMBDA s : s.id \notin QuizUserRated)

\* C7: for 0 <= n <= number of songs, the quiz is n songs with no id twice; all
\* of them unrated when the user has n unrated songs, and otherwise every
\* unrated song plus n - (unrated) rated ones.
C7_QuizSample ==
    ( /\ resp.route = "start_quiz"
      /\ get_user_by_id(users, resp.user_id) # <<>>
      /\ 0 <= resp.n
      /\ resp.n <= Len(songs) )
    => /\ resp.status = 200
       /\ Len(resp.body) = resp.n
       /\ Cardinality(IdsOf(resp.body)) = resp.n
       /\ Range(resp.body) \subseteq Range(songs)
       /\ NumUnrated >= resp.n => IdsOf(resp.body) \cap QuizUserRated = {}
       /\ NumUnrated < resp.n =>
            /\ \A i \in DOMAIN songs :
                 songs[i].id \notin QuizUserRated => songs[i] \in Range(resp.body)
            /\ NumWhere(resp.body, LAMBDA s : s.id \in QuizUserRated)
                 = resp.n - NumUnrated

\* a quiz of unrated songs topped up with a rated one, one rated song left out
C7_Witness ==
    /\ resp.route = "start_quiz"
    /\ resp.status = 200
    /\ 0 < NumUnrated
    /\ NumUnrated < resp.n
    /\ resp.n < Len(songs)
    /\ \E i \in DOMAIN resp.body : resp.body[i].id \in QuizUserRated

\* C8: a quiz larger than the songs table fails with the not-enough-songs error,
\* the route answers 400 to an existing user and returns no list; a quiz that
\* fits never fails with that error; the request changes no table.
C8_QuizInsufficient ==
    [][ (resp'.route = "start_quiz")
          => /\ UNCHANGED store_vars
             /\ (get_user_by_id(users, resp'.user_id) # <<>> /\ Len(songs) < resp'.n)
                  => /\ resp'.status = 400
                     /\ resp'.error = NotEnoughSongs
                     /\ resp'.body = <<>>
             /\ (get_user_by_id(users, resp'.user_id) # <<>> /\ Len(songs) >= resp'.n)
                  => resp'.error # NotEnoughSongs ]_vars

\* the error was answered with ratings in the table and songs in the store
C8_Witness ==
    /\ resp.route = "start_quiz"
    /\ get_user_by_id(users, resp.user_id) # <<>>
    /\ resp.error = NotEnoughSongs
    /\ resp.status = 400
    /\ songs # <<>>
    /\ feedback # <<>>

----------------------------------------------------------------------------
(* Properties of score_song, checked under SpecScore *)

\* the mean of the values lies further than tol from x (the division done exactly)
FarFromMean(x, values, tol) ==
    Abs(x * Len(values) - SumSeq(values)) > tol * Len(values)

\* no liked and no disliked song has the song's artist or subgenre, no liked
\* song has one of its tags
NothingShared(song) ==
    /\ \A i \in DOMAIN liked_songs :
         /\ song.artist # liked_songs[i].artist
         /\ song.subgenre # liked_songs[i].subgenre
         /\ TagSet(song.tags) \cap TagSet(liked_songs[i].tags) = {}
    /\ \A i \in DOMAIN disliked_songs :
         /\ song.artist # disliked_songs[i].artist
         /\ song.subgenre # disliked_songs[i].subgenre

\* the song's BPM and year are further than the tolerances from the BPM and the
\* year of every liked and every disliked song, one song at a time
FarFromEach(song) ==
    \A o \in Range(liked_songs) \cup Range(disliked_songs) :
        /\ TagSet(song.tags) \cap TagSet(o.tags) = {}
        /\ (Truthy(song.bpm) /\ Truthy(o.bpm))
              => Abs(song.bpm[1] - o.bpm[1]) > BPM_TOLERANCE
        /\ song.year # <<>>
        /\ o.year # <<>>
        /\ Abs(song.year[1] - o.year[1]) > YEAR_TOLERANCE

\* the song's BPM and year are further than the tolerances from the means over
\* the liked songs
FarFromLikedMeans(song) ==
    LET with_bpm == SelectSeq(liked_songs, LAMBDA s : Truthy(s.bpm))
        bpms     == [i \in DOMAIN with_bpm |-> with_bpm[i].bpm[1]]
        years    == [i \in DOMAIN liked_songs |-> liked_songs[i].year[1]]
    IN  /\ (Truthy(song.bpm) /\ bpms # <<>>)
              => FarFromMean(song.bpm[1], bpms, BPM_TOLERANCE)
        /\ liked_songs # <<>>
              => /\ song.year # <<>>
                 /\ \A i \in DOMAIN liked_songs : liked_songs[i].year # <<>>
                 /\ FarFromMean(song.year[1], years, YEAR_TOLERANCE)

OnlyJitter == score_op = "returned" /\ cand_score \in 0..(JITTER_MAX - 1)

\* C11 as stated: a candidate whose artist, subgenre, tags, BPM and year are
\* disjoint from those of every liked and every disliked song, scored without a
\* seed song, gets a score in [0, 0.1).
C11_DisjointFromEachSong ==
    (score_op # "none" /\ seed_song = <<>>
       /\ NothingShared(candidate[1]) /\ FarFromEach(candidate[1]))
    => OnlyJitter

\* C11, amended: a candidate that shares no artist and no subgenre with a liked or
\* a disliked song and no tag with a liked song, whose BPM is missing or further
\* than BPM_TOLERANCE from the mean BPM of the liked songs, and whose year is
\* further than YEAR_TOLERANCE from the mean year of the liked songs, scored
\* without a seed song, gets a score in [0, 0.1): only the jitter contributes, for
\* empty and non-empty liked and disliked lists.
C11_UnrelatedOnlyJitter ==
    (score_op # "none" /\ seed_song = <<>>
       /\ NothingShared(candidate[1]) /\ FarFromLikedMeans(candidate[1]))
    => OnlyJitter

C11_Witness ==
    /\ score_op = "returned"
    /\ seed_song = <<>>
    /\ liked_songs # <<>>
    /\ disliked_songs # <<>>
    /\ NothingShared(candidate[1])
    /\ FarFromLikedMeans(candidate[1])
    /\ cand_score = JITTER_MAX - 1

\* the seed terms other than the tag overlap
SeedOtherTerms(song, seed) ==
    IF seed = <<>> THEN 0
    ELSE (IF song.artist = seed[1].artist THEN SEED_ARTIST_WEIGHT ELSE 0)
       + (IF song.subgenre = seed[1].subgenre THEN SEED_SUBGENRE_WEIGHT ELSE 0)
       + (IF Truthy(song.bpm) /\ Truthy(seed[1].bpm)
             /\ Abs(song.bpm[1] - seed[1].bpm[1]) <= BPM_TOLERANCE
          THEN SEED_BPM_WEIGHT ELSE 0)

\* the BPM term over the songs that have a BPM (a BPM of 0 counts as none)
BpmOfPresent(song, liked) ==
    LET have == SelectSeq(liked, LAMBDA s : Truthy(s.bpm))
        bpms == [i \in DOMAIN have |-> have[i].bpm[1]]
    IN  IF Truthy(song.bpm) /\ have # <<>>
           /\ ~FarFromMean(song.bpm[1], bpms, BPM_TOLERANCE)
        THEN BPM_WEIGHT ELSE 0

\* the era term over the songs that have a year
YearOfPresent(song, liked) ==
    LET have  == SelectSeq(liked, LAMBDA s : s.year # <<>>)
        years == [i \in DOMAIN have |-> have[i].year[1]]
    IN  IF song.year # <<>> /\ have # <<>>
           /\ ~FarFromMean(song.year[1], years, YEAR_TOLERANCE)
        THEN ERA_WEIGHT ELSE 0

\* C17: score_song never fails and never subtracts because a BPM or a year is
\* missing: a candidate without a BPM or a year and a liked song without a BPM or
\* a year are left out of the BPM and era terms, and the score is the score
\* computed from the remaining terms.
C17_MissingValuesLeftOut ==
    score_op # "none"
    => /\ score_op = "returned"
       /\ cand_score = cand_jitter
                        + ArtistTerm(candidate[1], liked_songs, disliked_songs)
                        + SubgenreTerm(candidate[1], liked_songs, disliked_songs)
                        + TagTerm(candidate[1], liked_songs)
                        + SeedTerm(candidate[1], seed_song)
                        + BpmOfPresent(candidate[1], liked_songs)
                        + YearOfPresent(candidate[1], liked_songs)

\* the score of the candidate without any tag overlap
ScoreWithoutTags ==
    cand_jitter + ArtistTerm(candidate[1], liked_songs, disliked_songs)
    + SubgenreTerm(candidate[1], liked_songs, disliked_songs)
    + BpmTerm(candidate[1], liked_songs) + EraTerm(candidate[1], liked_songs)
    + SeedOtherTerms(candidate[1], seed_song)

\* the tags two non-empty tag strings share, counted over the songs of the list
\* whose tag string is not empty
SharedPieces(song, others) ==
    SumSeq([i \in DOMAIN others |->
              IF others[i].tags = <<"">> THEN 0
              ELSE Cardinality(Range(song.tags) \cap Range(others[i].tags))])

\* C18: an empty tag string is the empty set of tags.  A candidate whose tag
\* string is empty gets no tag overlap from any liked song and from the seed,
\* also when their tag strings are empty; a candidate with tags gets none
\* from a liked song or a seed whose tag string is empty.
C18_EmptyTagsNoOverlap ==
    score_op = "returned"
    => IF candidate[1].tags = <<"">>
       THEN cand_score = ScoreWithoutTags
       ELSE cand_score = ScoreWithoutTags
                         + SharedPieces(candidate[1], liked_songs) * TAG_WEIGHT
                         + SharedPieces(candidate[1], seed_song) * SEED_TAG_WEIGHT

C18_Witness ==
    /\ score_op = "returned"
    /\ candidate[1].tags = <<"">>
    /\ \E i \in DOMAIN liked_songs : liked_songs[i].tags = <<"">>
    /\ \E i \in DOMAIN liked_songs : liked_songs[i].tags # <<"">>
    /\ seed_song # <<>>
    /\ seed_song[1].tags = <<"">>

\* the terms of the score other than the artist and the subgenre terms
OtherThanAffinity ==
    cand_jitter + TagTerm(candidate[1], liked_songs)
    + BpmTerm(candidate[1], liked_songs) + EraTerm(candidate[1], liked_songs)
    + SeedTerm(candidate[1], seed_song)

SameArtist(others) ==
    NumWhere(others, LAMBDA o : o.artist = candidate[1].artist)

SameSubgenre(others) ==
    NumWhere(others, LAMBDA o : o.subgenre = candidate[1].subgenre)

\* C23: the artist term is ARTIST_WEIGHT * (L - D) and the subgenre term
\* SUBGENRE_WEIGHT * (L' - D'), L and D (L' and D') the numbers of liked and of
\* disliked songs with the candidate's artist (subgenre), without a cap.  A
\* candidate whose only match is the artist of disliked songs scores below 0, and
\* one that matches a liked artist and no disliked song scores at least
\* ARTIST_WEIGHT.
C23_AffinityLinear ==
    score_op = "returned"
    => /\ cand_score - OtherThanAffinity
            = ARTIST_WEIGHT * (SameArtist(liked_songs) - SameArtist(disliked_songs))
            + SUBGENRE_WEIGHT
                * (SameSubgenre(liked_songs) - SameSubgenre(disliked_songs))
       /\ (/\ SameArtist(disliked_songs) > 0
           /\ SameArtist(liked_songs) = 0
           /\ SameSubgenre(liked_songs) = 0
           /\ SharedPieces(candidate[1], liked_songs) = 0
           /\ seed_song = <<>>)
          => cand_score < 0
       /\ (/\ SameArtist(liked_songs) > 0
           /\ SameArtist(disliked_songs) = 0
           /\ SameSubgenre(disliked_songs) = 0)
          => cand_score >= ARTIST_WEIGHT

\* two liked songs and two disliked songs of the candidate's artist
C23_Witness ==
    /\ score_op = "returned"
    /\ SameArtist(liked_songs) = 2
    /\ SameArtist(disliked_songs) = 2
    /\ SameSubgenre(liked_songs) = 1
    /\ seed_song = <<>>

\* the terms of the score other than the BPM and the era terms
OtherThanProximity ==
    cand_jitter + ArtistTerm(candidate[1], liked_songs, disliked_songs)
    + SubgenreTerm(candidate[1], liked_songs, disliked_songs)
    + TagTerm(candidate[1], liked_songs) + SeedTerm(candidate[1], seed_song)

\* the value is within the tolerance of the mean of a non-empty list of values
\* (a value of 0 counts as none, as the truth test of the code has it)
NearMeanOfPresent(value, others, tolerance) ==
    LET have == SelectSeq(others, LAMBDA o : Truthy(o))
        vals == [i \in DOMAIN have |-> have[i][1]]
    IN  Truthy(value) /\ have # <<>> /\ ~FarFromMean(value[1], vals, tolerance)

\* C24: the BPM term adds BPM_WEIGHT exactly when the candidate has a BPM, at
\* least one liked song has one, and the candidate's BPM is within BPM_TOLERANCE,
\* bound included, of the mean BPM of the liked songs that have one; otherwise
\* it adds nothing.  The era term does the same with the years and
\* YEAR_TOLERANCE.
C24_ProximityTerms ==
    score_op # "none"
    => /\ score_op = "returned"
       /\ cand_score - OtherThanProximity
            = (IF NearMeanOfPresent(candidate[1].bpm,
                     [i \in DOMAIN liked_songs |-> liked_songs[i].bpm],
                     BPM_TOLERANCE)
               THEN BPM_WEIGHT ELSE 0)
            + (IF NearMeanOfPresent(candidate[1].year,
                     [i \in DOMAIN liked_songs |-> liked_songs[i].year],
                     YEAR_TOLERANCE)
               THEN ERA_WEIGHT ELSE 0)

\* the seed shares the artist, the subgenre, a tag or a close BPM
SeedShares ==
    /\ seed_song # <<>>
    /\ \/ candidate[1].artist = seed_song[1].artist
       \/ candidate[1].subgenre = seed_song[1].subgenre
       \/ SharedPieces(candidate[1], seed_song) > 0
       \/ /\ Truthy(candidate[1].bpm)
          /\ Truthy(seed_song[1].bpm)
          /\ Abs(candidate[1].bpm[1] - seed_song[1].bpm[1]) <= BPM_TOLERANCE

\* the base score of the same call made without the seed
BaseWithoutSeed == ScoreBase(candidate[1], liked_songs, disliked_songs, <<>>)

\* C25: a seed never lowers a score.  The base score with the seed is at least
\* the base score without it, and when the seed shares the candidate's artist,
\* its subgenre, a tag, or has a BPM within BPM_TOLERANCE of the candidate's, the
\* score with the seed is greater than the score without it whatever the two
\* jitter values.
C25_SeedNeverLowers ==
    score_op = "returned"
    => /\ cand_score - cand_jitter >= BaseWithoutSeed
       /\ SeedShares
          => \A jitter \in 0..(JITTER_MAX - 1) :
               cand_score > BaseWithoutSeed + jitter

\* the seed shares a close BPM only, and the call with the seed drew no jitter
C25_Witness ==
    /\ score_op = "returned"
    /\ SeedShares
    /\ cand_score - cand_jitter = BaseWithoutSeed + SEED_BPM_WEIGHT
    /\ cand_jitter = 0
    /\ liked_songs # <<>>
    /\ disliked_songs # <<>>

----------------------------------------------------------------------------
(* Properties of the playlists, checked under SpecPlaylists *)

\* the ordering entries of playlist p, in rowid order
EntriesOf(p) == SelectSeq(playlist_songs, LAMBDA r : r.playlist_id = p)

\* C12: for every list of existing song ids of length N, repeats included,
\* create_playlist stores exactly N ordering entries whose positions are 1..N,
\* each once, and get_playlist_by_id on the returned id yields the songs in the
\* order of the list.
C12_StoredInInputOrder ==
    /\ \A p \in DOMAIN pl_input :
         pl_input[p] # <<>>
         => LET ids  == pl_input[p][1]
                rows == EntriesOf(p)
            IN  /\ Len(rows) = Len(ids)
                /\ \A k \in 1..Len(ids) :
                     Cardinality({ i \in DOMAIN rows : rows[i].position = k }) = 1
    /\ (resp.route = "get_playlist" /\ resp.status = 200)
       => LET ids == pl_input[resp.playlist_id][1]
          IN  resp.body.songs =
                [i \in DOMAIN ids |-> [position |-> i, song |-> SongRow(ids[i])]]

C12_Witness ==
    /\ resp.route = "get_playlist"
    /\ resp.status = 200
    /\ pl_input[resp.playlist_id] = <<(<<3, 1, 3>>)>>
    /\ Len(resp.body.songs) = 3

\* every ordering entry references a playlist of the table, every playlist has
\* all the entries it was created with, and a playlist whose delete returned
\* true is not found and has no entry
PlaylistsWhole ==
    /\ \A i \in DOMAIN playlist_songs :
         playlist_songs[i].playlist_id \in IdsOfRows(playlists)
    /\ \A p \in IdsOfRows(playlists) :
         /\ p \in DOMAIN pl_input
         /\ pl_input[p] # <<>>
         /\ Len(EntriesOf(p)) = Len(pl_input[p][1])
    /\ (resp.route = "delete_playlist" /\ resp.status = 200)
       => /\ get_playlist_by_id(playlists, playlist_songs, songs,
                                resp.playlist_id) = <<>>
          /\ EntriesOf(resp.playlist_id) = <<>>

\* a delete of an id of the table returns true, a delete of any other id returns
\* false and changes neither table
DeleteStep ==
    resp'.route = "delete_playlist"
    => IF resp'.playlist_id \in IdsOfRows(playlists)
       THEN resp'.status = 200
       ELSE resp'.status = 404 /\ UNCHANGED <<playlists, playlist_songs>>

HasPlaylistFields(r) == r.user_id # 0 /\ r.name # "" /\ r.song_ids # <<>>

\* C14: a create-playlist request (with its three fields) whose song_ids holds
\* an id of no song, also after valid ids, or whose user id is unknown, is
\* answered 404 and leaves the playlists and the ordering entries unchanged.
C14_UnknownIdCreatesNothing ==
    [][(/\ resp'.route = "create_playlist"
        /\ HasPlaylistFields(resp')
        /\ \/ get_user_by_id(users, resp'.user_id) = <<>>
           \/ \E i \in DOMAIN resp'.song_ids :
                 get_song_by_id(songs, resp'.song_ids[i]) = <<>>)
       => /\ resp'.status = 404
          /\ UNCHANGED <<playlists, playlist_songs>>]_vars

C14_Witness ==
    /\ resp.route = "create_playlist"
    /\ resp.status = 404
    /\ resp.song_ids = <<1, 9>>
    /\ get_user_by_id(users, resp.user_id) # <<>>
    /\ playlists # <<>>

----------------------------------------------------------------------------
(* Properties of the users, checked under SpecUsers *)

\* no two rows of the users table have the same name
OneUserPerName ==
    \A i, j \in DOMAIN users : users[i].name = users[j].name => i = j

\* a create-user request without a name, or with the empty name, is answered
\* 400; one with the name of a row is answered 200 with that row; both leave
\* the table as it is
CreateUserStep ==
    resp'.route = "create_user"
    => IF resp'.name = <<>> \/ resp'.name = <<"">>
       THEN resp'.status = 400 /\ users' = users
       ELSE \A i \in DOMAIN users :
              users[i].name = resp'.name[1]
              => /\ resp'.status = 200
                 /\ resp'.body = users[i]
                 /\ users' = users

\* C16: after any sequence of create-user requests the users table holds at most
\* one user per name; a request with a name that exists returns the existing
\* user, same id, with status 200 and inserts no row; a request with an empty or
\* missing name is answered 400 and inserts nothing.
C16_OneUserPerName == []OneUserPerName /\ [][CreateUserStep]_vars

C16_Witness ==
    /\ resp.route = "create_user"
    /\ resp.status = 200
    /\ resp.body.id = 1
    /\ Len(users) >= 2

----------------------------------------------------------------------------
(* Properties of the answer and generate routes, checked under SpecGen *)

\* some title of the songs table matches the name
SomeTitleLike(name) == \E i \in DOMAIN songs : TitleLike(songs[i].title, name)

\* the user has a feedback row
HasFeedback(user_id) == \E i \in DOMAIN feedback : feedback[i].user_id = user_id

\* the request was refused with the status and no recommender call was made
RefusedWith(status) == resp.status = status /\ rec_op = "none"

\* C15: the generation route answers 400 to a request without user_id, 404 to
\* one for an unknown user and 404 to one whose seed_song_name matches no song,
\* whether or not the user has feedback, each time before the recommender is
\* invoked.
C15_GenerateRefusesEarly ==
    resp.route = "generate"
    => /\ resp.user_id = 0 => RefusedWith(400)
       /\ (resp.user_id # 0 /\ get_user_by_id(users, resp.user_id) = <<>>)
          => RefusedWith(404)
       /\ (/\ get_user_by_id(users, resp.user_id) # <<>>
           /\ resp.seed_song_name # <<>>
           /\ ~SomeTitleLike(resp.seed_song_name))
          => RefusedWith(404)

C15_Witness ==
    /\ resp.route = "generate"
    /\ resp.status = 404
    /\ get_user_by_id(users, resp.user_id) # <<>>
    /\ HasFeedback(resp.user_id)
    /\ resp.seed_song_name = <<"z", "z">>

\* C19: a generation request, on the cold or the warm path, with or without a
\* seed, whatever its status, leaves the users, songs, feedback, playlists and
\* ordering tables unchanged: the seed is never added to the feedback.
C19_GenerateReadsOnly ==
    [][resp'.route = "generate"
       => UNCHANGED <<users, songs, feedback, playlists, playlist_songs>>]_vars

C19_Witness ==
    /\ resp.route = "generate"
    /\ resp.status = 200
    /\ rec_op = "warm"
    /\ seed_song # <<>>
    /\ \A i \in DOMAIN feedback :
         feedback[i].user_id = resp.user_id => feedback[i].song_id # seed_song[1].id

\* the rows of the table other than those of the pair
OtherRows(fb, u, s) == SelectSeq(fb, LAMBDA r : ~(r.user_id = u /\ r.song_id = s))

\* C20: a quiz answer without user_id, song_id or liked is answered 400 and one
\* for an unknown user id or an unknown song id 404, and neither writes
\* feedback; only when the user and the song exist is a record inserted or
\* updated.
C20_AnswerValidates ==
    [][resp'.route = "answer_quiz"
       => IF resp'.user_id = 0 \/ resp'.song_id = 0 \/ resp'.liked = <<>>
          THEN resp'.status = 400 /\ feedback' = feedback
          ELSE IF \/ get_user_by_id(users, resp'.user_id) = <<>>
                  \/ get_song_by_id(songs, resp'.song_id) = <<>>
          THEN resp'.status = 404 /\ feedback' = feedback
          ELSE /\ resp'.status = 200
               /\ Len(MatchingRows(feedback', resp'.user_id, resp'.song_id)) = 1
               /\ MatchingRows(feedback', resp'.user_id, resp'.song_id)[1].liked
                    = resp'.liked[1]
               /\ OtherRows(feedback', resp'.user_id, resp'.song_id)
                    = OtherRows(feedback, resp'.user_id, resp'.song_id)]_vars

C20_Witness ==
    /\ resp.route = "answer_quiz"
    /\ resp.status = 404
    /\ resp.song_id = 9
    /\ resp.liked = <<FALSE>>
    /\ get_user_by_id(users, resp.user_id) # <<>>
    /\ feedback # <<>>

\* the songs whose most recent rating by the user is a dislike
CurrentDislikes(user_id) ==
    { s \in SongIds : fb_last[<<user_id, s>>] = <<FALSE>> }

\* C26: over every sequence of quiz answers and generations, a generation for
\* user u takes the cold-start path exactly when u has no feedback record at
\* that moment; otherwise its candidates are exactly the songs whose current
\* feedback from u is not a dislike, so a disliked song is never returned and a
\* song re-rated as liked is a candidate again.
C26_ColdIffNoFeedback ==
    (resp.route = "generate" /\ rec_op # "none")
    => /\ rec_op = "cold" <=> (\A s \in SongIds : fb_last[<<resp.user_id, s>>] = <<>>)
       /\ rec_op = "cold" <=> ~HasFeedback(resp.user_id)
       /\ rec_op # "cold"
          => /\ rec_op = "warm"
             /\ IdsOf(SongsOf(scored_songs))
                  = IdsOfRows(songs) \ CurrentDislikes(resp.user_id)
             /\ IdsOf(result) \cap CurrentDislikes(resp.user_id) = {}
             /\ result = SongsOf(TopN(scored_songs, resp.count))

\* a song first disliked, then re-rated as liked, is returned to its user
C26_Witness ==
    /\ resp.route = "generate"
    /\ rec_op = "warm"
    /\ fb_calls = 2
    /\ Len(feedback) = 1
    /\ ~fb_repeat
    /\ feedback[1].user_id = resp.user_id
    /\ feedback[1].liked
    /\ feedback[1].song_id \in IdsOf(result)

\* C28: save_feedback(u, s, v) changes the feedback of the pair (u, s) only.
\* The records of every other user and of every other song stay as they were,
\* value and rowid order, none is added and none removed, and the users, songs,
\* playlists and ordering tables are unchanged.
C28_SaveFeedbackFrame ==
    [][fb_calls' # fb_calls
       => /\ OtherRows(feedback', fb_call'[1], fb_call'[2])
               = OtherRows(feedback, fb_call'[1], fb_call'[2])
          /\ UNCHANGED <<users, songs, playlists, playlist_songs>>]_vars

\* two users rated the same song, one liked it and the other did not
C28_Witness ==
    /\ fb_calls = 2
    /\ Len(feedback) = 2
    /\ feedback[1].song_id = feedback[2].song_id
    /\ feedback[1].user_id # feedback[2].user_id
    /\ feedback[1].liked # feedback[2].liked

\* C30: a quiz answer with liked = false for an existing user and an existing
\* song is answered 200 and stored as a dislike; an answer is refused for a
\* missing liked only when liked is absent or null.
C30_FalseIsAnAnswer ==
    resp.route = "answer_quiz"
    => /\ (/\ resp.liked = <<FALSE>>
           /\ get_user_by_id(users, resp.user_id) # <<>>
           /\ get_song_by_id(songs, resp.song_id) # <<>>)
          => /\ resp.status = 200
             /\ Len(MatchingRows(feedback, resp.user_id, resp.song_id)) = 1
             /\ ~MatchingRows(feedback, resp.user_id, resp.song_id)[1].liked
       /\ (resp.status = 400 /\ resp.user_id # 0 /\ resp.song_id # 0)
          => resp.liked = <<>>

\* a dislike was accepted for a song the user had liked
C30_Witness ==
    /\ resp.route = "answer_quiz"
    /\ resp.status = 200
    /\ resp.liked = <<FALSE>>
    /\ fb_calls = 2
    /\ Len(feedback) = 1
    /\ ~feedback[1].liked

----------------------------------------------------------------------------
(* The two implementations side by side, checked under SpecApp *)

ResponsesOf(outcomes) == { <<o.status, o.body>> : o \in outcomes }

\* the taste profile and the seed the request of the pending response gives
PendingSeed ==
    IF resp.seed_song_name # <<>>
    THEN search_song_by_name(songs, resp.seed_song_name)
    ELSE <<>>

\* C29: with the default weights the two implementations are equivalent.  On
\* the same tables and the same request the response of either one (status code
\* and, for 200, result list) is one the other can give, and every candidate has
\* the same base score in both.
C29_ImplementationsEquivalent ==
    /\ resp.route = "generate"
       => <<resp.status, resp.body>>
            \in ResponsesOf(app_generate_playlist(resp.user_id, resp.count,
                                resp.genre, resp.seed_song_name))
    /\ resp.route = "app_generate"
       => <<resp.status, resp.body>>
            \in ResponsesOf(RouteOutcomes(resp.user_id, resp.count,
                                resp.genre, resp.seed_song_name))
    /\ (resp.route \in {"generate", "app_generate"} /\ resp.status = 200)
       => LET fbk == get_user_feedback(feedback, songs, resp.user_id)
          IN  \A i \in DOMAIN songs :
                  app_score_base(songs[i], fbk.liked, fbk.disliked, PendingSeed)
                    = ScoreBase(songs[i], fbk.liked, fbk.disliked, PendingSeed)

====
